---- MODULE Spec2Model ----
(***************************************************************************)
(* Model of jadujoel/smanager: the SoundPromise load-state machine         *)
(* (src/src/sound-promise.ts) and the SoundManager cache                   *)
(* (src/unnamed/part_002, the sound-manager module that imports it).       *)
(*                                                                         *)
(* Objects with identity are modelled by a number: tokens[t] is the        *)
(* SoundPromise with identity t, in order of construction, and buffers[b]  *)
(* the AudioBuffer with identity b: PlaceholderOf(t) is the buffer that    *)
(* createBuffer made for token t, DecodedBy(t) the buffer that the decoder *)
(* made for the fetch of token t.  NULL (0) is the null reference.         *)
(* Strings that the code parses (file ids) are sequences of characters.    *)
(***************************************************************************)
EXTENDS Integers, Sequences, FiniteSets, TLC

VARIABLES
    tokens,              \* heap of SoundPromise objects
    buffers,             \* heap of AudioBuffer objects
    forward,             \* SoundManager.forward : file -> token
    reversed,            \* SoundManager.reversed : file -> token
    state,               \* SoundManager.state
    atlas,               \* SoundManager.atlas
    activePackageNames,  \* SoundManager.activePackageNames
    activeLanguages,     \* SoundManager.activeLanguages
    sourcePath,          \* SoundManager.sourcePath
    priorities,          \* SoundManager.priorities
    pendingAtlas,        \* the atlas documents that loadAtlas calls await
    map,                 \* TypedEventTarget.map : type -> listeners
    returned,            \* what the step just taken returned, if a token
    outcome              \* the events the step just taken dispatched, and
                         \* the value it returned if not a token

vars == <<tokens, buffers, forward, reversed, state, atlas,
          activePackageNames, activeLanguages, sourcePath, priorities,
          pendingAtlas, map, returned, outcome>>

(***************************************************************************)
(* Bounds of the model.                                                    *)
(***************************************************************************)
\* how many tokens the manager creates
MaxTokens == 2

\* how many tokens a caller constructs on its own
MaxOwnTokens == 1

\* how many loadAtlas calls await their fetch at the same time
MaxAtlasLoads == 1

\* how many package names the active list of a new manager may hold
MaxActivePackages == 2

\* the tokens of a manager whose callers load in batches
MaxBatchTokens == 3

\* the channels and the samples per channel of the buffers that fill is
\* applied to
MaxChannels == 2

MaxLength == 2

\* the lengths of the arrays that sort is applied to and of its priority
\* lists
MaxItems == 3

MaxPriorities == 2

\* the tokens and promises of a manager whose callers load by language
MaxLanguagePromises == 5

\* how many listeners are registered for one event type
MaxListeners == 3

(***************************************************************************)
(* Program constants.                                                      *)
(***************************************************************************)
NO_LANG == "_"

RUNNING == 0
DISPOSED == 1

\* tuple positions of a SoundItem; the source counts from 0, TLA+ from 1
SOURCE == 1
FILE == 2
NUMS == 3
LANG == 4

State_UNLOADED == 0
State_LOADING == 1
State_LOADED == 2
State_REJECTED == 3
State_DISPOSED == 4

NULL == 0

\* the result of Number(s) for a string that is not a number
NaN == -1

sampleRate == 48000

(***************************************************************************)
(* String helpers: a string is a sequence of one-character strings.        *)
(***************************************************************************)
RECURSIVE split(_, _)
\* String.prototype.split(sep) for a one-character separator
split(s, sep) ==
    IF \A i \in 1..Len(s) : s[i] # sep
    THEN <<s>>
    ELSE LET i == CHOOSE k \in 1..Len(s) :
                      s[k] = sep /\ \A j \in 1..(k - 1) : s[j] # sep
         IN  <<SubSeq(s, 1, i - 1)>> \o split(SubSeq(s, i + 1, Len(s)), sep)

\* String.prototype.replace(pat, "") : removes the first occurrence of pat
replace(s, pat) ==
    LET n == Len(pat)
        hits == {i \in 1..(Len(s) - n + 1) : SubSeq(s, i, i + n - 1) = pat}
    IN  IF hits = {}
        THEN s
        ELSE LET i == CHOOSE k \in hits : \A j \in hits : k <= j
             IN  SubSeq(s, 1, i - 1) \o SubSeq(s, i + n, Len(s))

Digits == <<"0", "1", "2", "3", "4", "5", "6", "7", "8", "9">>

DigitValue(c) == (CHOOSE d \in 1..10 : Digits[d] = c) - 1

RECURSIVE DecimalValue(_)
DecimalValue(s) ==
    IF s = <<>> THEN 0
    ELSE 10 * DecimalValue(SubSeq(s, 1, Len(s) - 1)) + DigitValue(s[Len(s)])

\* Number(s) for strings over letters, digits and "." : the empty string is
\* 0, a string of decimal digits is its value, anything else is NaN
Number(s) ==
    IF \A i \in 1..Len(s) : \E d \in 1..10 : Digits[d] = s[i]
    THEN DecimalValue(s)
    ELSE NaN

(***************************************************************************)
(* The atlas of the model.                                                 *)
(***************************************************************************)
FileA == <<"8", "k", "b", ".", "1", "c", "h", ".", "a">>
FileB == <<"8", "k", "b", ".", "2", "c", "h", ".", "b">>
FileC == <<"8", "k", "b", ".", "2", "c", "h", ".", "c">>

\* a file id that no atlas of the model lists
FileX == <<"8", "k", "b", ".", "1", "c", "h", ".", "x">>

Files == {FileA, FileB, FileC}

\* an atlas is the sequence of its (package name, items) entries, in
\* insertion order (the order of Object.keys)
Atlas1 ==
    << [name |-> "localised",
        items |-> << <<"voice", FileA, 2, "english">>,
                     <<"voice", FileB, 3, "swedish">> >>],
       [name |-> "template",
        items |-> << <<"music", FileC, 2, NO_LANG>>,
                     <<"theme", FileC, 2, NO_LANG>> >>] >>

\* an atlas whose only package is not in the default active list and that
\* lists no english item and not FileA
Atlas2 ==
    << [name |-> "extra",
        items |-> << <<"music", FileC, 2, NO_LANG>>,
                     <<"voice", FileB, 3, "swedish">> >>] >>

Atlases == {Atlas1, Atlas2}

SourceNames == {"voice", "music", "theme", "nonexistent"}

\* the arguments that callers pass to the setters
Languages == {"english", "swedish", "german", NO_LANG}

PackageNames == {"localised", "template", "extra", "missing"}

Paths == {"./encoded/", "cdn"}

PriorityLists == {<<>>, <<"music">>}

\* what the decode capability returns for the bytes of a file: the decoded
\* data need not have the shape the atlas announces
DecodedOf(file) ==
    IF file = FileA
    THEN [numberOfChannels |-> 1, length |-> 2, sampleRate |-> sampleRate,
          channelData |-> << <<1, 2>> >>]
    ELSE IF file = FileB
    THEN [numberOfChannels |-> 1, length |-> 2, sampleRate |-> sampleRate,
          channelData |-> << <<3, 4>> >>]
    ELSE [numberOfChannels |-> 2, length |-> 3, sampleRate |-> sampleRate,
          channelData |-> << <<5, 6, 7>>, <<8, 9, 10>> >>]

(***************************************************************************)
(* Maps (Map<string, SoundPromise>) are functions from their keys.         *)
(***************************************************************************)
EmptyMap == [f \in {} |-> NULL]

MapSet(m, k, v) == [f \in DOMAIN m \cup {k} |-> IF f = k THEN v ELSE m[f]]

MapDelete(m, ks) == [f \in DOMAIN m \ ks |-> m[f]]

(***************************************************************************)
(* AudioBuffer (fixtures: MockContext.createBuffer, MockAudioBuffer).      *)
(***************************************************************************)
createBuffer(numberOfChannels, length, rate) ==
    [numberOfChannels |-> numberOfChannels,
     length |-> length,
     sampleRate |-> rate,
     channelData |-> [ch \in 1..numberOfChannels |-> [i \in 1..length |-> 0]]]

\* source.copyFromChannel(destination, ch): every index of destination is
\* written, with 0 where the source has no sample
copyFromChannel(source, destination, ch) ==
    [i \in 1..Len(destination) |->
        IF i <= Len(source.channelData[ch])
        THEN source.channelData[ch][i]
        ELSE 0]

Min(a, b) == IF a <= b THEN a ELSE b

\* the fallback of fill: tch.set(sch.subarray(0, ns), 0)
setSubarray(tch, sch, ns) ==
    [i \in 1..Len(tch) |-> IF i <= ns THEN sch[i] ELSE tch[i]]

\* fill with every copy shifted by one sample
fillShifted(target, source, legacy) ==
    LET nch == Min(target.numberOfChannels, source.numberOfChannels)
    IN  [target EXCEPT !.channelData =
            [ch \in 1..target.numberOfChannels |->
                IF ch <= nch
                THEN [i \in 1..target.length |->
                        IF i + 1 <= source.length
                        THEN source.channelData[ch][i + 1]
                        ELSE 0]
                ELSE target.channelData[ch]]]

\* fill(target, source); legacy is TRUE when the buffers have no
\* copyFromChannel, so that the try block throws before it copies anything
fill(target, source, legacy) ==
    LET nch == Min(target.numberOfChannels, source.numberOfChannels)
        ns == Min(target.length, source.length)
    IN  [target EXCEPT !.channelData =
            [ch \in 1..target.numberOfChannels |->
                IF ch > nch
                THEN target.channelData[ch]
                ELSE IF legacy
                THEN setSubarray(target.channelData[ch],
                                 source.channelData[ch], ns)
                ELSE copyFromChannel(source, target.channelData[ch], ch)]]

(***************************************************************************)
(* SoundPromise (src/src/sound-promise.ts).  A token is a record:          *)
(*   state, value     the public fields                                    *)
(*   decoder          whether a decoder was given to the constructor       *)
(*   settled, result  the internal Promise: "pending", or "fulfilled" with *)
(*                    result, or "rejected"; only its first settlement     *)
(*                    counts                                               *)
(*   fetch, url       the fetch issued by load: "none", "inflight", "done" *)
(*   fetches          how many fetches load has issued for this token      *)
(*   buffer, cont     the placeholder captured by the continuation that    *)
(*                    loadItem chains on the token, and whether that       *)
(*                    continuation is "none", "pending" or "done"          *)
(*   events           the events the manager dispatched for this load      *)
(*   origin           "caller" or "manager": who constructed the token     *)
(*   forwardOf        for a token that requestBufferReversedAsync made, the *)
(*                    forward token it is derived from; its cont is then    *)
(*                    the continuation chained on that forward token        *)
(***************************************************************************)
NewSoundPromise(decoder, origin) ==
    [state |-> State_UNLOADED, value |-> NULL, decoder |-> decoder,
     origin |-> origin,
     settled |-> "pending", result |-> NULL,
     fetch |-> "none", url |-> <<>>, fetches |-> 0,
     buffer |-> NULL, cont |-> "none", events |-> <<>>,
     forwardOf |-> NULL]

Settle(p, how, value) ==
    IF p.settled = "pending"
    THEN [p EXCEPT !.settled = how, !.result = value]
    ELSE p

\* this.resolve with a null value marked LOADED
resolveNullLoaded(p, value) ==
    Settle([p EXCEPT !.state = State_LOADED, !.value = value],
           "fulfilled", value)

\* this.resolve(value)
resolve(p, value) ==
    Settle([p EXCEPT !.state = IF value = NULL THEN State_REJECTED
                                ELSE State_LOADED,
                     !.value = value],
           "fulfilled", value)

\* this.reject that fulfils the internal promise with null
rejectFulfilsNull(p) ==
    Settle([p EXCEPT !.state = State_REJECTED, !.value = NULL],
           "fulfilled", NULL)

\* this.reject that does not clear the value
rejectKeepsValue(p) ==
    Settle([p EXCEPT !.state = State_REJECTED], "rejected", NULL)

\* this.reject(reason)
reject(p) ==
    Settle([p EXCEPT !.state = State_REJECTED, !.value = NULL],
           "rejected", NULL)

\* load without the state guard
loadUnguarded(p, url) ==
    IF p.decoder
    THEN [p EXCEPT !.state = State_LOADING, !.fetch = "inflight",
                   !.url = url, !.fetches = @ + 1]
    ELSE reject(p)

\* load(url)
load(p, url) ==
    IF p.state # State_UNLOADED
    THEN p
    ELSE IF p.decoder
    THEN [p EXCEPT !.state = State_LOADING, !.fetch = "inflight",
                   !.url = url, !.fetches = @ + 1]
    ELSE reject(p)

\* dispose that rejects the pending awaiters
disposeRejects(p) ==
    IF p.state # State_DISPOSED
    THEN [reject(p) EXCEPT !.state = State_DISPOSED]
    ELSE p

\* dispose()
dispose(p) ==
    IF p.state # State_DISPOSED
    THEN [resolve(p, NULL) EXCEPT !.state = State_DISPOSED]
    ELSE p

\* SoundPromise.from(null)
from(value) == resolve(NewSoundPromise(FALSE, "manager"), value)

TokenIds == 1..Len(tokens)

\* the identity of a token made by SoundPromise.from(null) and only returned
FROM_NULL == -1

\* the token with identity t
TokenAt(t) == IF t = FROM_NULL THEN from(NULL) ELSE tokens[t]

PlaceholderOf(t) == 2 * t - 1

DecodedBy(t) == 2 * t

CanAllocate == Len(tokens) < MaxTokens

CanAllocateOwn == Len(tokens) < MaxOwnTokens

\* what the step just taken returned to its caller: the token, the value
\* that token had when the call returned, and whether the call issued a
\* fetch
Returned(tok, buf, fetched) ==
    [tok |-> tok, buf |-> buf, fetched |-> fetched]

\* the step just taken returned no token
Nothing == Returned(NULL, NULL, FALSE)

\* the result of a step: the events it dispatched, in order, the value it
\* returned (void, true, false, or "item" with the SoundItem in item)
Outcome(dispatched, value) ==
    [dispatched |-> dispatched, value |-> value, item |-> <<>>]

\* the boolean results of the setters
true == "true"

false == "false"

\* a TypedEvent: its type and its detail
Event(type, detail) == <<type, detail>>

\* the detail of an event that is dispatched without one
noDetail == ""

\* the return value of a step that returns nothing or a token
void == "void"

\* the step just taken dispatched no event
Silent == Outcome(<<>>, void)

SettingsUnchanged ==
    UNCHANGED <<atlas, activePackageNames, activeLanguages, sourcePath,
                priorities, pendingAtlas,
                   map>>

ManagerUnchanged ==
    /\ UNCHANGED <<forward, reversed, state>>
    /\ SettingsUnchanged

(***************************************************************************)
(* Atlas lookups of the SoundManager.                                      *)
(***************************************************************************)
undefined == <<>>

AtlasHas(a, name) == \E i \in 1..Len(a) : a[i].name = name

AtlasGet(a, name) == a[CHOOSE i \in 1..Len(a) : a[i].name = name].items

RECURSIVE flat(_)
\* Array.prototype.flat() of a sequence of sequences
flat(ss) == IF ss = <<>> THEN <<>> ELSE Head(ss) \o flat(Tail(ss))

\* Array.prototype.find: the first element that satisfies Test, or undefined
find(s, Test(_)) ==
    IF \E i \in 1..Len(s) : Test(s[i])
    THEN s[CHOOSE i \in 1..Len(s) :
                Test(s[i]) /\ \A j \in 1..(i - 1) : ~Test(s[j])]
    ELSE undefined

includes(s, x) == \E i \in 1..Len(s) : s[i] = x

getPackageItems(name) ==
    IF state = DISPOSED THEN <<>>
    ELSE IF AtlasHas(atlas, name) THEN AtlasGet(atlas, name) ELSE <<>>

getPackageNames == 
    IF state = DISPOSED THEN <<>>
    ELSE [i \in 1..Len(atlas) |-> atlas[i].name]

findItemBySourceName(sourceName, packageNames, languages) ==
    IF state # RUNNING THEN undefined
    ELSE LET Match(item) ==
                 item[SOURCE] = sourceName /\ includes(languages, item[LANG])
         IN  find(flat([i \in 1..Len(packageNames) |->
                            getPackageItems(packageNames[i])]), Match)

findItemByFileName(fileName, packageNames) ==
    IF state # RUNNING THEN undefined
    ELSE LET Match(item) == item[FILE] = fileName
         IN  find(flat([i \in 1..Len(packageNames) |->
                            getPackageItems(packageNames[i])]), Match)

\* getPackages(names)
getPackages(names) ==
    IF state = DISPOSED THEN <<>>
    ELSE LET isDefined(name) == AtlasHas(atlas, name)
             defined == SelectSeq(names, isDefined)
         IN  [i \in 1..Len(defined) |-> getPackageItems(defined[i])]

RECURSIVE firstSeen(_)
\* the elements of s without repetition, in the order of their first
\* occurrence: the loop of getLanguages that pushes what is not yet included
firstSeen(s) ==
    IF s = <<>> THEN <<>>
    ELSE LET rest == firstSeen(SubSeq(s, 1, Len(s) - 1))
         IN  IF includes(rest, s[Len(s)]) THEN rest
             ELSE Append(rest, s[Len(s)])

\* getLanguages(packageNames)
getLanguages(packageNames) ==
    IF state # RUNNING THEN <<>>
    ELSE LET items == flat(getPackages(packageNames))
         IN  firstSeen([i \in 1..Len(items) |-> items[i][LANG]])

\* Array.prototype.indexOf, counting positions from 1; -1 when absent
indexOf(s, x) ==
    IF includes(s, x)
    THEN CHOOSE i \in 1..Len(s) : s[i] = x /\ \A j \in 1..(i - 1) : s[j] # x
    ELSE -1

\* splice that removes the first element whatever the index
spliceHead(s, index) == Tail(s)

\* Array.prototype.splice(index, 1), for a position counted from 1
splice(s, index) == SubSeq(s, 1, index - 1) \o SubSeq(s, index + 1, Len(s))

\* unshift that adds at the end
unshiftAtEnd(s, x) == s \o <<x>>

\* Array.prototype.unshift(x)
unshift(s, x) == <<x>> \o s

\* getLoadStateByFile(file)
getLoadStateByFile(file) ==
    IF file \in DOMAIN forward
    THEN tokens[forward[file]].state
    ELSE State_UNLOADED

\* undefined is modelled by NaN here: both make an unusable channel count
getNumChannelsByFile(file) ==
    LET splat == split(file, ".")
    IN  IF Len(splat) < 2
        THEN NaN
        ELSE Number(replace(splat[2], <<"c", "h">>))

\* every item a caller can hold: the items of the atlases of the model
AllItems == {Atlas1[i].items[j] : i \in 1..Len(Atlas1), j \in 1..2}

(***************************************************************************)
(* SoundManager.loadItem and the operations that delegate to it.           *)
(***************************************************************************)
\* return SoundPromise.from(null): the new token is referenced by nothing
\* but the return value, so it is kept there and not in tokens
ReturnFromNull ==
    /\ returned' = Returned(FROM_NULL, from(NULL).value, FALSE)
    /\ outcome' = Silent
    /\ UNCHANGED <<tokens, buffers>>
    /\ ManagerUnchanged

\* the token of loadItem without the placeholder assigned to its value
ForwardPromiseNoValue(file, buffer) ==
    [load([NewSoundPromise(TRUE, "manager") EXCEPT !.buffer = buffer], file)
       EXCEPT !.cont = "pending",
              !.events = <<"fileloading">>]

\* the token that loadItem creates for file, with its placeholder buffer,
\* its load started and its continuation chained
ForwardPromise(file, buffer) ==
    [load([NewSoundPromise(TRUE, "manager")
              EXCEPT !.value = buffer, !.buffer = buffer],
          file)
       EXCEPT !.cont = "pending",
              !.events = <<"fileloading">>]

\* the part of loadItem after the lookup in forward has missed
LoadItemMiss(item) ==
    LET file == item[FILE]
        nc == getNumChannelsByFile(file)
        t == Len(tokens) + 1
        buffer == PlaceholderOf(t)
        promise == ForwardPromise(file, buffer)
    IN  /\ CanAllocate
        /\ buffers' = MapSet(buffers, buffer,
                              createBuffer(nc, item[NUMS], sampleRate))
        /\ tokens' = Append(tokens, promise)
        /\ forward' = MapSet(forward, file, t)
        /\ returned' = Returned(t, buffer, TRUE)
        /\ outcome' = Outcome(<<Event("fileloading", file)>>, void)
        /\ UNCHANGED <<reversed, state>>
        /\ SettingsUnchanged

\* loadItem without the lookup in forward
LoadItemNoDedup(item) ==
    IF state # RUNNING
    THEN ReturnFromNull
    ELSE LoadItemMiss(item)

\* loadItem that loads again a file whose load has failed
LoadItemRetriesRejected(item) ==
    IF state # RUNNING
    THEN ReturnFromNull
    ELSE IF /\ item[FILE] \in DOMAIN forward
            /\ tokens[forward[item[FILE]]].state # State_REJECTED
    THEN /\ returned' = Returned(forward[item[FILE]],
                                 tokens[forward[item[FILE]]].value, FALSE)
         /\ outcome' = Silent
         /\ UNCHANGED <<tokens, buffers>>
         /\ ManagerUnchanged
    ELSE LoadItemMiss(item)

\* loadItem(item)
LoadItem(item) ==
    IF state # RUNNING
    THEN ReturnFromNull
    ELSE IF item[FILE] \in DOMAIN forward
    THEN /\ returned' = Returned(forward[item[FILE]],
                                 tokens[forward[item[FILE]]].value, FALSE)
         /\ outcome' = Silent
         /\ UNCHANGED <<tokens, buffers>>
         /\ ManagerUnchanged
    ELSE LoadItemMiss(item)

\* requestBufferAsync without the test for undefined: reading item[FILE]
\* throws
RequestBufferAsyncThrows(sourceName) ==
    LET item == findItemBySourceName(sourceName, activePackageNames,
                                     activeLanguages)
    IN  IF item = undefined
        THEN /\ returned' = Nothing
             /\ outcome' = Outcome(<<>>, "throws")
             /\ UNCHANGED <<tokens, buffers>>
             /\ ManagerUnchanged
        ELSE LoadItem(item)

\* requestBufferAsync(sourceName)
RequestBufferAsync(sourceName) ==
    LET item == findItemBySourceName(sourceName, activePackageNames,
                                     activeLanguages)
    IN  IF item = undefined
        THEN ReturnFromNull
        ELSE LoadItem(item)

\* requestBufferSync(sourceName): what the caller gets is returned.buf, the
\* value of the token that requestBufferAsync returns
RequestBufferSync(sourceName) == RequestBufferAsync(sourceName)

\* loadFile without the check of the manager state
LoadFileWhileDisposed(file) ==
    IF file \in DOMAIN forward
    THEN /\ returned' = Returned(forward[file], tokens[forward[file]].value,
                                 FALSE)
         /\ outcome' = Silent
         /\ UNCHANGED <<tokens, buffers>>
         /\ ManagerUnchanged
    ELSE IF findItemByFileName(file, activePackageNames) = undefined
    THEN /\ returned' = Returned(FROM_NULL, from(NULL).value, FALSE)
         /\ outcome' = Outcome(<<Event("fileloaderror", file)>>, void)
         /\ UNCHANGED <<tokens, buffers>>
         /\ ManagerUnchanged
    ELSE LoadItem(findItemByFileName(file, activePackageNames))

\* loadFile(file)
LoadFile(file) ==
    IF state # RUNNING
    THEN ReturnFromNull
    ELSE IF file \in DOMAIN forward
    THEN /\ returned' = Returned(forward[file], tokens[forward[file]].value,
                                 FALSE)
         /\ outcome' = Silent
         /\ UNCHANGED <<tokens, buffers>>
         /\ ManagerUnchanged
    ELSE IF findItemByFileName(file, activePackageNames) = undefined
    THEN /\ returned' = Returned(FROM_NULL, from(NULL).value, FALSE)
         /\ outcome' = Outcome(<<Event("fileloaderror", file)>>, void)
         /\ UNCHANGED <<tokens, buffers>>
         /\ ManagerUnchanged
    ELSE LoadItem(findItemByFileName(file, activePackageNames))

\* a reversed token that fetches the file on its own
ReversedPromiseFetching(f, buffer) ==
    [load([NewSoundPromise(TRUE, "manager")
              EXCEPT !.value = buffer, !.buffer = buffer],
          FileA)
       EXCEPT !.forwardOf = f, !.cont = "pending"]

\* the token that requestBufferReversedAsync creates next to the forward
\* token f, with a new buffer of the shape of the value of f
ReversedPromise(f, buffer) ==
    [NewSoundPromise(TRUE, "manager")
       EXCEPT !.value = buffer, !.buffer = buffer,
              !.forwardOf = f, !.cont = "pending"]

\* the part of requestBufferReversedAsync after loadItem has returned the
\* token f that forward already held
ReversedOfHit(file, f) ==
    IF tokens[f].value = NULL
    THEN /\ reversed' = MapSet(reversed, file, f)
         /\ returned' = Returned(f, NULL, FALSE)
         /\ outcome' = Silent
         /\ UNCHANGED <<tokens, buffers, forward, state>>
         /\ SettingsUnchanged
    ELSE LET r == Len(tokens) + 1
             buffer == PlaceholderOf(r)
             shape == buffers[tokens[f].value]
         IN  /\ CanAllocate
             /\ buffers' = MapSet(buffers, buffer,
                                   createBuffer(shape.numberOfChannels,
                                                shape.length,
                                                shape.sampleRate))
             /\ tokens' = Append(tokens, ReversedPromise(f, buffer))
             /\ returned' = Returned(r, buffer, FALSE)
             /\ outcome' = Silent
             /\ UNCHANGED <<forward, reversed, state>>
             /\ SettingsUnchanged

\* the part of requestBufferReversedAsync in which loadItem creates the
\* forward token: its value is the placeholder, so a reversed token follows
ReversedOfMiss(item) ==
    LET file == item[FILE]
        nc == getNumChannelsByFile(file)
        f == Len(tokens) + 1
        r == Len(tokens) + 2
    IN  /\ Len(tokens) + 2 <= MaxTokens
        /\ buffers' = MapSet(MapSet(buffers, PlaceholderOf(f),
                                     createBuffer(nc, item[NUMS], sampleRate)),
                              PlaceholderOf(r),
                              createBuffer(nc, item[NUMS], sampleRate))
        /\ tokens' = tokens \o <<ForwardPromise(file, PlaceholderOf(f)),
                                  ReversedPromise(f, PlaceholderOf(r))>>
        /\ forward' = MapSet(forward, file, f)
        /\ returned' = Returned(r, PlaceholderOf(r), TRUE)
        /\ outcome' = Outcome(<<Event("fileloading", file)>>, void)
        /\ UNCHANGED <<reversed, state>>
        /\ SettingsUnchanged

\* requestBufferReversedAsync(sourceName)
RequestBufferReversedAsync(sourceName) ==
    LET item == findItemBySourceName(sourceName, activePackageNames,
                                     activeLanguages)
    IN  IF item = undefined
        THEN ReturnFromNull
        ELSE IF item[FILE] \in DOMAIN reversed
        THEN /\ returned' = Returned(reversed[item[FILE]],
                                     tokens[reversed[item[FILE]]].value,
                                     FALSE)
             /\ outcome' = Silent
             /\ UNCHANGED <<tokens, buffers>>
             /\ ManagerUnchanged
        ELSE IF item[FILE] \in DOMAIN forward
        THEN ReversedOfHit(item[FILE], forward[item[FILE]])
        ELSE ReversedOfMiss(item)

\* requestBufferReversedSync(sourceName): what the caller gets is
\* returned.buf, the value of the token that requestBufferReversedAsync
\* returns
RequestBufferReversedSync(sourceName) ==
    RequestBufferReversedAsync(sourceName)

(***************************************************************************)
(* The asynchronous steps of a load.                                       *)
(***************************************************************************)
\* fetch, arrayBuffer and decodeAudioData succeeded: this.resolve(decoded)
FetchSucceed(t) ==
    /\ t \in TokenIds
    /\ tokens[t].fetch = "inflight"
    /\ buffers' = MapSet(buffers, DecodedBy(t), DecodedOf(tokens[t].url))
    /\ tokens' = [tokens EXCEPT ![t] =
                     [resolve(@, DecodedBy(t)) EXCEPT !.fetch = "done"]]
    /\ returned' = Nothing
    /\ outcome' = Silent
    /\ ManagerUnchanged

\* fetch, arrayBuffer or decodeAudioData failed: this.reject(new Error(...))
FetchFail(t) ==
    /\ t \in TokenIds
    /\ tokens[t].fetch = "inflight"
    /\ tokens' = [tokens EXCEPT ![t] = [reject(@) EXCEPT !.fetch = "done"]]
    /\ returned' = Nothing
    /\ outcome' = Silent
    /\ UNCHANGED buffers
    /\ ManagerUnchanged

\* the continuation of loadItem without its test for a null result: fill
\* then throws on null and the catch handler dispatches fileloaderror
LoadContinuationNoNullCheck(t) ==
    /\ t \in TokenIds
    /\ tokens[t].forwardOf = NULL
    /\ tokens[t].cont = "pending"
    /\ tokens[t].settled # "pending"
    /\ IF tokens[t].settled = "rejected" \/ tokens[t].result = NULL
       THEN /\ tokens' = [tokens EXCEPT ![t].cont = "done",
                             ![t].events = Append(@, "fileloaderror")]
            /\ outcome' = Outcome(<<Event("fileloaderror", tokens[t].url)>>,
                                  void)
            /\ UNCHANGED buffers
       ELSE /\ buffers' = [buffers EXCEPT ![tokens[t].buffer] =
                              fill(@, buffers[tokens[t].result], FALSE)]
            /\ tokens' = [tokens EXCEPT ![t].cont = "done",
                             ![t].events = Append(@, "fileloaded")]
            /\ outcome' = Outcome(<<Event("fileloaded", tokens[t].url)>>,
                                  void)
    /\ returned' = Nothing
    /\ ManagerUnchanged

\* the .then(...).catch(...) that loadItem chains on the token, run once the
\* internal promise has settled
LoadContinuation(t) ==
    /\ t \in TokenIds
    /\ tokens[t].forwardOf = NULL
    /\ tokens[t].cont = "pending"
    /\ tokens[t].settled # "pending"
    /\ IF tokens[t].settled = "rejected"
       THEN /\ tokens' = [tokens EXCEPT ![t].cont = "done",
                             ![t].events = Append(@, "fileloaderror")]
            /\ outcome' = Outcome(<<Event("fileloaderror", tokens[t].url)>>,
                                  void)
            /\ UNCHANGED buffers
       ELSE IF tokens[t].result = NULL
       THEN /\ tokens' = [tokens EXCEPT ![t].cont = "done"]
            /\ outcome' = Silent
            /\ UNCHANGED buffers
       ELSE /\ buffers' = [buffers EXCEPT ![tokens[t].buffer] =
                              fill(@, buffers[tokens[t].result], FALSE)]
            /\ tokens' = [tokens EXCEPT ![t].cont = "done",
                             ![t].events = Append(@, "fileloaded")]
            /\ outcome' = Outcome(<<Event("fileloaded", tokens[t].url)>>,
                                  void)
    /\ returned' = Nothing
    /\ ManagerUnchanged

\* the continuation of loadItem for a successful load when a listener of
\* fileloaded throws: dispatchEvent calls the listeners without a try, so
\* the exception leaves the then callback after fill and the dispatch, and
\* the catch handler chained behind it dispatches fileloaderror
LoadContinuationListenerThrows(t) ==
    /\ t \in TokenIds
    /\ tokens[t].forwardOf = NULL
    /\ tokens[t].cont = "pending"
    /\ tokens[t].settled = "fulfilled"
    /\ tokens[t].result # NULL
    /\ buffers' = [buffers EXCEPT ![tokens[t].buffer] =
                      fill(@, buffers[tokens[t].result], FALSE)]
    /\ tokens' = [tokens EXCEPT ![t].cont = "done",
                     ![t].events = @ \o <<"fileloaded", "fileloaderror">>]
    /\ outcome' = Outcome(<<Event("fileloaded", tokens[t].url),
                            Event("fileloaderror", tokens[t].url)>>, void)
    /\ returned' = Nothing
    /\ ManagerUnchanged

\* the continuation of requestBufferReversedAsync without its test of
\* decoded: fill throws on null, the chain is rejected and the reversed
\* token is left alone
ReversedContinuationNoNullCheck(r) ==
    /\ r \in TokenIds
    /\ tokens[r].forwardOf # NULL
    /\ tokens[r].cont = "pending"
    /\ tokens[tokens[r].forwardOf].settled # "pending"
    /\ LET f == tokens[r].forwardOf
       IN  IF tokens[f].settled = "rejected" \/ tokens[f].result = NULL
           THEN /\ tokens' = [tokens EXCEPT ![r].cont = "done"]
                /\ UNCHANGED buffers
           ELSE /\ buffers' = [buffers EXCEPT ![tokens[r].buffer] =
                                  fill(@, buffers[tokens[f].result], FALSE)]
                /\ tokens' = [tokens EXCEPT ![r] =
                                 [resolve(@, tokens[r].buffer)
                                    EXCEPT !.cont = "done"]]
    /\ returned' = Nothing
    /\ outcome' = Silent
    /\ ManagerUnchanged

\* the .then(...).then(...) that requestBufferReversedAsync chains on the
\* forward token, run once that token has settled; when the forward token
\* was rejected the chain is rejected and the reversed token is left alone
ReversedContinuation(r) ==
    /\ r \in TokenIds
    /\ tokens[r].forwardOf # NULL
    /\ tokens[r].cont = "pending"
    /\ tokens[tokens[r].forwardOf].settled # "pending"
    /\ LET f == tokens[r].forwardOf
       IN  IF tokens[f].settled = "rejected"
           THEN /\ tokens' = [tokens EXCEPT ![r].cont = "done"]
                /\ UNCHANGED buffers
           ELSE IF tokens[f].result = NULL
           THEN /\ tokens' = [tokens EXCEPT ![r] =
                                 [resolve(@, NULL) EXCEPT !.cont = "done"]]
                /\ UNCHANGED buffers
           ELSE /\ buffers' = [buffers EXCEPT ![tokens[r].buffer] =
                                  fill(@, buffers[tokens[f].result], FALSE)]
                /\ tokens' = [tokens EXCEPT ![r] =
                                 [resolve(@, tokens[r].buffer)
                                    EXCEPT !.cont = "done"]]
    /\ returned' = Nothing
    /\ outcome' = Silent
    /\ ManagerUnchanged

(***************************************************************************)
(* Disposal.                                                               *)
(***************************************************************************)
\* disposeFile that deletes the entries and does not dispose their tokens
DisposedTokensForgotten(files) == tokens

\* the tokens after disposeFile has run for every file of files
DisposedTokens(files) ==
    LET hit == {forward[f] : f \in files \cap DOMAIN forward}
                 \cup {reversed[f] : f \in files \cap DOMAIN reversed}
    IN  [t \in TokenIds |-> IF t \in hit THEN dispose(tokens[t]) ELSE tokens[t]]

\* disposeFile that leaves the reversed map alone
DisposeFileForwardOnly(file) ==
    /\ IF state = DISPOSED
       THEN UNCHANGED <<tokens, forward, reversed>>
       ELSE /\ tokens' = [t \in TokenIds |->
                             IF file \in DOMAIN forward /\ forward[file] = t
                             THEN dispose(tokens[t])
                             ELSE tokens[t]]
            /\ forward' = MapDelete(forward, {file})
            /\ reversed' = reversed
    /\ returned' = Nothing
    /\ outcome' = Silent
    /\ UNCHANGED <<buffers, state>>
    /\ SettingsUnchanged

\* disposeFile(file)
DisposeFile(file) ==
    /\ IF state = DISPOSED
       THEN UNCHANGED <<tokens, forward, reversed>>
       ELSE /\ tokens' = DisposedTokens({file})
            /\ forward' = MapDelete(forward, {file})
            /\ reversed' = MapDelete(reversed, {file})
    /\ returned' = Nothing
    /\ outcome' = Silent
    /\ UNCHANGED <<buffers, state>>
    /\ SettingsUnchanged

\* the files of the items that disposePackages(getPackageNames()) visits
AtlasFiles ==
    {item[FILE] : item \in
        UNION {{atlas[i].items[j] : j \in 1..Len(atlas[i].items)} :
                   i \in 1..Len(atlas)}}

\* dispose(): super.dispose() clears the listeners, then
\* disposePackages(this.getPackageNames()), then state = DISPOSED
Dispose ==
    /\ IF state = DISPOSED
       THEN UNCHANGED <<tokens, forward, reversed, state, map>>
       ELSE /\ map' = EmptyMap
            /\ tokens' = DisposedTokens(AtlasFiles)
            /\ forward' = MapDelete(forward, AtlasFiles)
            /\ reversed' = MapDelete(reversed, AtlasFiles)
            /\ state' = DISPOSED
    /\ returned' = Nothing
    /\ outcome' = Silent
    /\ UNCHANGED <<buffers, atlas, activePackageNames, activeLanguages,
                   sourcePath, priorities, pendingAtlas>>

\* reload(): dispose(false), then state = RUNNING
Reload ==
    /\ IF state = DISPOSED
       THEN UNCHANGED <<tokens, forward, reversed>>
       ELSE /\ tokens' = DisposedTokens(AtlasFiles)
            /\ forward' = MapDelete(forward, AtlasFiles)
            /\ reversed' = MapDelete(reversed, AtlasFiles)
    /\ state' = RUNNING
    /\ returned' = Nothing
    /\ outcome' = Outcome(<<Event("reloaded", noDetail)>>, void)
    /\ UNCHANGED buffers
    /\ SettingsUnchanged

\* the files of a sequence of items
FilesOf(items) == {items[i][FILE] : i \in 1..Len(items)}

\* disposePackage(packageName)
DisposePackage(packageName) ==
    LET files == FilesOf(getPackageItems(packageName))
    IN  /\ IF state = DISPOSED
           THEN UNCHANGED <<tokens, forward, reversed>>
           ELSE /\ tokens' = DisposedTokens(files)
                /\ forward' = MapDelete(forward, files)
                /\ reversed' = MapDelete(reversed, files)
        /\ returned' = Nothing
        /\ outcome' = Silent
        /\ UNCHANGED <<buffers, state>>
        /\ SettingsUnchanged

\* disposePackages(packageNames)
DisposePackages(packageNames) ==
    LET files == FilesOf(flat(getPackages(packageNames)))
    IN  /\ IF state = DISPOSED
           THEN UNCHANGED <<tokens, forward, reversed>>
           ELSE /\ tokens' = DisposedTokens(files)
                /\ forward' = MapDelete(forward, files)
                /\ reversed' = MapDelete(reversed, files)
        /\ returned' = Nothing
        /\ outcome' = Silent
        /\ UNCHANGED <<buffers, state>>
        /\ SettingsUnchanged

(***************************************************************************)
(* The settings of the SoundManager.                                       *)
(***************************************************************************)
CacheUnchanged == UNCHANGED <<tokens, buffers, forward, reversed>>

\* a step that returns value and changes nothing
Refuse(value) ==
    /\ returned' = Nothing
    /\ outcome' = Outcome(<<>>, value)
    /\ CacheUnchanged
    /\ ManagerUnchanged

\* setAtlas that makes the packages of the new atlas the active ones
SetAtlasResetsPackages(a) ==
    IF state # RUNNING
    THEN Refuse(void)
    ELSE /\ atlas' = a
         /\ activePackageNames' = [i \in 1..Len(a) |-> a[i].name]
         /\ returned' = Nothing
         /\ outcome' = Outcome(<<Event("atlasloaded", noDetail)>>, void)
         /\ CacheUnchanged
         /\ UNCHANGED <<state, activeLanguages, sourcePath, priorities,
                        pendingAtlas,
                   map>>

\* setAtlas(atlas)
SetAtlas(a) ==
    IF state # RUNNING
    THEN Refuse(void)
    ELSE /\ atlas' = a
         /\ returned' = Nothing
         /\ outcome' = Outcome(<<Event("atlasloaded", noDetail)>>, void)
         /\ CacheUnchanged
         /\ UNCHANGED <<state, activePackageNames, activeLanguages,
                        sourcePath, priorities, pendingAtlas,
                   map>>

\* loadAtlas(url), up to its first await: a is the document behind url
LoadAtlas(a) ==
    IF state # RUNNING
    THEN Refuse(void)
    ELSE /\ Len(pendingAtlas) < MaxAtlasLoads
         /\ pendingAtlas' = Append(pendingAtlas, a)
         /\ returned' = Nothing
         /\ outcome' = Silent
         /\ CacheUnchanged
         /\ UNCHANGED <<state, atlas, activePackageNames, activeLanguages,
                        sourcePath, priorities, map>>

\* the rest of loadAtlas, once fetch and response.json() have succeeded
AtlasFetched(i) ==
    /\ i \in 1..Len(pendingAtlas)
    /\ pendingAtlas' = splice(pendingAtlas, i)
    /\ atlas' = pendingAtlas[i]
    /\ returned' = Nothing
    /\ outcome' = Outcome(<<Event("atlasloaded", noDetail)>>, void)
    /\ CacheUnchanged
    /\ UNCHANGED <<state, activePackageNames, activeLanguages,
                   sourcePath, priorities, map>>

\* fetch or response.json() of a loadAtlas call has failed: the promise that
\* loadAtlas returned is rejected
AtlasFetchFail(i) ==
    /\ i \in 1..Len(pendingAtlas)
    /\ pendingAtlas' = splice(pendingAtlas, i)
    /\ returned' = Nothing
    /\ outcome' = Silent
    /\ CacheUnchanged
    /\ UNCHANGED <<state, atlas, activePackageNames, activeLanguages,
                   sourcePath, priorities, map>>

\* setLanguage(language)
SetLanguage(language) ==
    IF state # RUNNING
    THEN Refuse(false)
    ELSE IF activeLanguages # <<>> /\ activeLanguages[1] = language
    THEN Refuse(false)
    ELSE IF ~includes(getLanguages(getPackageNames), language)
    THEN Refuse(false)
    ELSE LET index == indexOf(activeLanguages, language)
         IN  /\ activeLanguages' =
                   IF index = -1
                   THEN unshift(activeLanguages, language)
                   ELSE unshift(splice(activeLanguages, index), language)
             /\ returned' = Nothing
             /\ outcome' = Outcome(<<Event("languagechanged", language)>>,
                                   true)
             /\ CacheUnchanged
             /\ UNCHANGED <<state, atlas, activePackageNames, sourcePath,
                            priorities, pendingAtlas,
                   map>>

\* setPackageByName(packageName)
SetPackageByName(packageName) ==
    IF \/ state # RUNNING
       \/ activePackageNames # <<>> /\ packageName = activePackageNames[1]
    THEN Refuse(false)
    ELSE IF ~AtlasHas(atlas, packageName)
    THEN Refuse(false)
    ELSE LET index == indexOf(activePackageNames, packageName)
         IN  IF index = -1
             THEN Refuse(false)
             ELSE /\ activePackageNames' =
                        unshift(splice(activePackageNames, index),
                                packageName)
                  /\ returned' = Nothing
                  /\ outcome' = Outcome(<<Event("packagechanged",
                                               packageName)>>, true)
                  /\ CacheUnchanged
                  /\ UNCHANGED <<state, atlas, activeLanguages, sourcePath,
                                 priorities, pendingAtlas,
                   map>>

\* setLoadPath(path)
SetLoadPath(path) ==
    IF state # RUNNING
    THEN Refuse(void)
    ELSE /\ sourcePath' = path
         /\ returned' = Nothing
         /\ outcome' = Outcome(<<Event("loadpathchanged", path)>>, void)
         /\ CacheUnchanged
         /\ UNCHANGED <<state, atlas, activePackageNames, activeLanguages,
                        priorities, pendingAtlas,
                   map>>

\* setPriorityList(sourceNames)
SetPriorityList(sourceNames) ==
    /\ priorities' = sourceNames
    /\ returned' = Nothing
    /\ outcome' = Silent
    /\ CacheUnchanged
    /\ UNCHANGED <<state, atlas, activePackageNames, activeLanguages,
                   sourcePath, pendingAtlas,
                   map>>

\* findItemBySourceName(sourceName), with the active lists
FindItemBySourceName(sourceName) ==
    /\ returned' = Nothing
    /\ outcome' = [Outcome(<<>>, "item") EXCEPT !.item =
                      findItemBySourceName(sourceName, activePackageNames,
                                           activeLanguages)]
    /\ CacheUnchanged
    /\ ManagerUnchanged

(***************************************************************************)
(* Batch loads: every loadItem call of a batch is made in the step that    *)
(* issues the batch (sorted.map runs before the first await).              *)
(***************************************************************************)
\* the index that sort gives a source name: its position in priorities,
\* counted from 0 (the last one when the name is repeated, as the Map keeps
\* the last entry of a key), or priorities.length when it is absent
priorityIndex(source, list) ==
    IF includes(list, source)
    THEN (CHOOSE i \in 1..Len(list) :
             /\ list[i] = source
             /\ \A j \in (i + 1)..Len(list) : list[j] # source) - 1
    ELSE Len(list)

RECURSIVE sortFrom(_, _, _)
\* the items whose index is at least k, by index, each group in the order
\* of items: Array.prototype.sort is stable
sortFrom(items, list, k) ==
    IF k > Len(list)
    THEN <<>>
    ELSE LET HasIndex(item) == priorityIndex(item[SOURCE], list) = k
         IN  SelectSeq(items, HasIndex) \o sortFrom(items, list, k + 1)

\* sort with the items that are not on the list in front
sortListedLast(items, list) ==
    LET all == sortFrom(items, list, 0)
        rest == sortFrom(items, list, Len(list))
    IN  rest \o SubSeq(all, 1, Len(all) - Len(rest))

\* sort(items, priorities)
sort(items, list) == sortFrom(items, list, 0)

\* what a batch works on: the cache, the events dispatched so far and the
\* tokens that the loadItem calls returned so far
Cache ==
    [tokens |-> tokens, buffers |-> buffers, forward |-> forward,
     dispatched |-> <<>>, result |-> <<>>]

\* loadItem in a batch that stops issuing loads once a load has failed
loadItemUnlessFailed(c, item) ==
    IF \E t \in 1..Len(c.tokens) : c.tokens[t].state = State_REJECTED
    THEN c
    ELSE IF state # RUNNING
    THEN [c EXCEPT !.result = Append(@, FROM_NULL)]
    ELSE IF item[FILE] \in DOMAIN c.forward
    THEN [c EXCEPT !.result = Append(@, c.forward[item[FILE]])]
    ELSE LET file == item[FILE]
             t == Len(c.tokens) + 1
             buffer == PlaceholderOf(t)
         IN  [tokens |-> Append(c.tokens, ForwardPromise(file, buffer)),
              buffers |-> MapSet(c.buffers, buffer,
                                 createBuffer(getNumChannelsByFile(file),
                                              item[NUMS], sampleRate)),
              forward |-> MapSet(c.forward, file, t),
              dispatched |-> Append(c.dispatched, Event("fileloading", file)),
              result |-> Append(c.result, t)]

\* loadItem(item) as one call of a batch, on the cache c that the calls
\* before it have left
loadItemIn(c, item) ==
    IF state # RUNNING
    THEN [c EXCEPT !.result = Append(@, FROM_NULL)]
    ELSE IF item[FILE] \in DOMAIN c.forward
    THEN [c EXCEPT !.result = Append(@, c.forward[item[FILE]])]
    ELSE LET file == item[FILE]
             t == Len(c.tokens) + 1
             buffer == PlaceholderOf(t)
         IN  [tokens |-> Append(c.tokens, ForwardPromise(file, buffer)),
              buffers |-> MapSet(c.buffers, buffer,
                                 createBuffer(getNumChannelsByFile(file),
                                              item[NUMS], sampleRate)),
              forward |-> MapSet(c.forward, file, t),
              dispatched |-> Append(c.dispatched, Event("fileloading", file)),
              result |-> Append(c.result, t)]

RECURSIVE mapLoadItem(_, _)
\* items.map(item => this.loadItem(item))
mapLoadItem(c, items) ==
    IF items = <<>>
    THEN c
    ELSE mapLoadItem(loadItemIn(c, Head(items)), Tail(items))

\* the step of a batch that has made its loadItem calls and left the
\* cache c
Issue(c) ==
    /\ Len(c.tokens) <= MaxBatchTokens
    /\ tokens' = c.tokens
    /\ buffers' = c.buffers
    /\ forward' = c.forward
    /\ returned' = Nothing
    /\ outcome' = Outcome(c.dispatched, void)
    /\ UNCHANGED <<reversed, state>>
    /\ SettingsUnchanged

\* the order in which loadItems(items) makes its loadItem calls
sorted(items) ==
    IF Len(priorities) > 0 THEN sort(items, priorities) ELSE items

\* loadItems(items)
LoadItems(items) == Issue(mapLoadItem(Cache, sorted(items)))

\* loadPackageName(name)
LoadPackageName(name) ==
    IF state # RUNNING
    THEN Refuse(void)
    ELSE LoadItems(getPackageItems(name))

\* Array.prototype.filter(name => name in this.atlas)
inAtlas(names) ==
    LET isIn(name) == AtlasHas(atlas, name)
    IN  SelectSeq(names, isIn)

\* loadPackageNames(packageNames): loadPackageName for each name that the
\* atlas has, in the order of packageNames
LoadPackageNames(packageNames) ==
    IF state # RUNNING
    THEN Refuse(void)
    ELSE LET names == inAtlas(packageNames)
         IN  Issue(mapLoadItem(Cache,
                       flat([i \in 1..Len(names) |->
                                sorted(getPackageItems(names[i]))])))

\* loadEverything()
LoadEverything ==
    IF state # RUNNING
    THEN Refuse(void)
    ELSE LoadPackageNames(getPackageNames)

\* sources.map(source => this.findItemBySourceName(source)).filter(isDefined)
itemsOfSources(sources) ==
    LET isDefined(item) == item # undefined
    IN  SelectSeq([i \in 1..Len(sources) |->
                      findItemBySourceName(sources[i], activePackageNames,
                                           activeLanguages)],
                  isDefined)

\* loadSources(sources)
LoadSources(sources) ==
    IF state # RUNNING
    THEN Refuse(void)
    ELSE LoadItems(itemsOfSources(sources))

(***************************************************************************)
(* Tokens that a caller constructs and drives itself.                      *)
(***************************************************************************)
CallerTokens == {t \in TokenIds : tokens[t].origin = "caller"}

TokenUnchanged ==
    /\ returned' = Nothing
    /\ outcome' = Silent
    /\ UNCHANGED buffers
    /\ ManagerUnchanged

\* SoundPromise.new(decoder)
TokenNew(decoder) ==
    /\ CanAllocateOwn
    /\ tokens' = Append(tokens, NewSoundPromise(decoder, "caller"))
    /\ TokenUnchanged

\* SoundPromise.from(null)
TokenFromNull ==
    /\ CanAllocateOwn
    /\ tokens' = Append(tokens, resolve(NewSoundPromise(FALSE, "caller"), NULL))
    /\ TokenUnchanged

\* the buffers after the caller has made buffer b with createBuffer, if it
\* had not yet
CallerHolds(b) ==
    IF b \in DOMAIN buffers
    THEN buffers
    ELSE MapSet(buffers, b, createBuffer(1, 1, sampleRate))

\* SoundPromise.from(existingBuffer), for a buffer the caller made
TokenFromBuffer(b) ==
    /\ CanAllocateOwn
    /\ b = PlaceholderOf(Len(tokens) + 1)
    /\ buffers' = CallerHolds(b)
    /\ tokens' = Append(tokens, resolve(NewSoundPromise(FALSE, "caller"), b))
    /\ returned' = Nothing
    /\ outcome' = Silent
    /\ ManagerUnchanged

\* SoundPromise.from(url, decoder)
TokenFromUrl(url, decoder) ==
    /\ CanAllocateOwn
    /\ tokens' = Append(tokens, load(NewSoundPromise(decoder, "caller"), url))
    /\ TokenUnchanged

\* token.load(url), which returns the token
TokenLoad(t, url) ==
    /\ t \in CallerTokens
    /\ tokens' = [tokens EXCEPT ![t] = load(@, url)]
    /\ returned' = Returned(t, tokens'[t].value,
                            tokens'[t].fetches > tokens[t].fetches)
    /\ outcome' = Silent
    /\ UNCHANGED buffers
    /\ ManagerUnchanged

\* token.resolve(value), value null or a buffer the caller made
TokenResolve(t, value) ==
    /\ t \in CallerTokens
    /\ value \in {NULL, PlaceholderOf(t)}
    /\ buffers' = IF value = NULL THEN buffers ELSE CallerHolds(value)
    /\ tokens' = [tokens EXCEPT ![t] = resolve(@, value)]
    /\ returned' = Nothing
    /\ outcome' = Silent
    /\ ManagerUnchanged

\* token.reject(reason)
TokenReject(t) ==
    /\ t \in CallerTokens
    /\ tokens' = [tokens EXCEPT ![t] = reject(@)]
    /\ TokenUnchanged

\* token.dispose()
TokenDispose(t) ==
    /\ t \in CallerTokens
    /\ tokens' = [tokens EXCEPT ![t] = dispose(@)]
    /\ TokenUnchanged

Init ==
    /\ tokens = <<>>
    /\ buffers = EmptyMap
    /\ forward = EmptyMap
    /\ reversed = EmptyMap
    /\ state = RUNNING
    /\ atlas = Atlas1
    /\ activePackageNames = [i \in 1..Len(Atlas1) |-> Atlas1[i].name]
    /\ activeLanguages = <<"english", NO_LANG>>
    /\ sourcePath = "./encoded/"
    /\ priorities = <<>>
    /\ pendingAtlas = <<>>
    /\ map = EmptyMap
    /\ returned = Nothing
    /\ outcome = Silent

\* the manager, its callers and the completions of its loads
Next ==
    \/ \E item \in AllItems : LoadItem(item)
    \/ \E sourceName \in SourceNames : RequestBufferAsync(sourceName)
    \/ \E sourceName \in SourceNames : RequestBufferSync(sourceName)
    \/ \E t \in 1..MaxTokens : FetchSucceed(t)
    \/ \E t \in 1..MaxTokens : FetchFail(t)
    \/ \E t \in 1..MaxTokens : LoadContinuation(t)
    \/ \E file \in Files : DisposeFile(file)
    \/ Dispose
    \/ Reload

Spec == Init /\ [][Next]_vars

\* the files a caller can name: those of the atlas and one it does not list
FileNames == Files \cup {FileX}

\* the cache with every operation that hands out tokens, until it is
\* disposed and after
CacheNext ==
    \/ \E item \in AllItems : LoadItem(item)
    \/ \E file \in FileNames : LoadFile(file)
    \/ \E sourceName \in SourceNames : RequestBufferAsync(sourceName)
    \/ \E sourceName \in SourceNames : RequestBufferSync(sourceName)
    \/ \E sourceName \in SourceNames : RequestBufferReversedAsync(sourceName)
    \/ \E sourceName \in SourceNames : RequestBufferReversedSync(sourceName)
    \/ \E t \in 1..MaxTokens : FetchSucceed(t)
    \/ \E t \in 1..MaxTokens : FetchFail(t)
    \/ \E t \in 1..MaxTokens : LoadContinuation(t)
    \/ \E t \in 1..MaxTokens : ReversedContinuation(t)
    \/ Dispose

CacheSpec == Init /\ [][CacheNext]_vars

\* the cache with forward and reversed requests and disposal by file
DisposalNext ==
    \/ \E item \in AllItems : LoadItem(item)
    \/ \E sourceName \in SourceNames : RequestBufferReversedAsync(sourceName)
    \/ \E t \in 1..MaxTokens : FetchSucceed(t)
    \/ \E t \in 1..MaxTokens : FetchFail(t)
    \/ \E t \in 1..MaxTokens : LoadContinuation(t)
    \/ \E t \in 1..MaxTokens : ReversedContinuation(t)
    \/ \E file \in Files : DisposeFile(file)

DisposalSpec == Init /\ [][DisposalNext]_vars

\* the lists without repetition of at most n elements of S
ListsOver(S, n) ==
    {l \in UNION {[1..k -> S] : k \in 0..n} :
        \A i, j \in 1..Len(l) : l[i] = l[j] => i = j}

\* the languages that the items of the atlases are tagged with
ItemLanguages == {"english", "swedish", NO_LANG}

\* a manager as its constructor makes it, for the atlases of the model and
\* for active lists given by the caller
LookupInit ==
    /\ tokens = <<>>
    /\ buffers = EmptyMap
    /\ forward = EmptyMap
    /\ reversed = EmptyMap
    /\ state = RUNNING
    /\ atlas \in Atlases
    /\ activePackageNames \in
          ListsOver({"localised", "template", "extra"}, MaxActivePackages)
    /\ activeLanguages \in ListsOver(ItemLanguages, 3)
    /\ sourcePath = "./encoded/"
    /\ priorities = <<>>
    /\ pendingAtlas = <<>>
    /\ map = EmptyMap
    /\ returned = Nothing
    /\ outcome = Silent

\* the lookups and the setters of the active lists
LookupNext ==
    \/ \E sourceName \in SourceNames : FindItemBySourceName(sourceName)
    \/ \E language \in Languages : SetLanguage(language)
    \/ \E packageName \in PackageNames : SetPackageByName(packageName)
    \/ Dispose
    \/ Reload

LookupSpec == LookupInit /\ [][LookupNext]_vars

\* what the callers of the manager with its settings load: one file of the
\* first atlas, and a file that no atlas lists
LoadedItems == {Atlas1[1].items[1]}

LoadedFiles == {FileA, FileX}

\* the source names that the callers of one file request
VoiceNames == {"voice"}

\* the loads of one file, forward and reversed, with their completions and
\* the disposal of the file
VoiceNext ==
    \/ \E item \in LoadedItems : LoadItem(item)
    \/ \E sourceName \in VoiceNames : RequestBufferReversedAsync(sourceName)
    \/ \E sourceName \in VoiceNames : RequestBufferReversedSync(sourceName)
    \/ \E t \in 1..MaxTokens : FetchSucceed(t)
    \/ \E t \in 1..MaxTokens : FetchFail(t)
    \/ \E t \in 1..MaxTokens : LoadContinuation(t)
    \/ \E t \in 1..MaxTokens : ReversedContinuation(t)
    \/ \E file \in LoadedFiles : DisposeFile(file)

VoiceSpec == Init /\ [][VoiceNext]_vars

\* fetches settle, and the continuations chained on a settled token run
FairVoiceSpec ==
    /\ VoiceSpec
    /\ \A t \in 1..MaxTokens :
          /\ WF_vars(FetchSucceed(t) \/ FetchFail(t))
          /\ WF_vars(LoadContinuation(t))
          /\ WF_vars(ReversedContinuation(t))

\* the loads of one file with their notifications, for listeners that
\* return and listeners that throw, and the disposal of the file
NotifyNext ==
    \/ \E item \in LoadedItems : LoadItem(item)
    \/ \E t \in 1..MaxTokens : FetchSucceed(t)
    \/ \E t \in 1..MaxTokens : FetchFail(t)
    \/ \E t \in 1..MaxTokens : LoadContinuation(t)
    \/ \E t \in 1..MaxTokens : LoadContinuationListenerThrows(t)
    \/ \E file \in LoadedFiles : DisposeFile(file)

NotifySpec == Init /\ [][NotifyNext]_vars

\* fetches settle, and the continuation chained on a settled token runs
FairNotifySpec ==
    /\ NotifySpec
    /\ \A t \in 1..MaxTokens :
          /\ WF_vars(FetchSucceed(t) \/ FetchFail(t))
          /\ WF_vars(LoadContinuation(t)
                        \/ LoadContinuationListenerThrows(t))

\* the batches that the callers issue: lists of items, of source names and
\* of package names, some with a name that resolves to nothing
ItemLists ==
    ListsOver({Atlas1[1].items[1], Atlas1[1].items[2], Atlas1[2].items[1]}, 2)

SourceLists ==
    {<<"voice">>, <<"music", "voice">>, <<"nonexistent", "music">>}

PackageLists ==
    {<<"localised", "template">>, <<"template", "localised">>,
     <<"missing", "template">>}

\* the manager with its batch loads, the priority list that orders them
\* and the completions of the loads
BatchNext ==
    \/ \E items \in ItemLists : LoadItems(items)
    \/ \E sources \in SourceLists : LoadSources(sources)
    \/ \E name \in PackageNames : LoadPackageName(name)
    \/ \E packageNames \in PackageLists : LoadPackageNames(packageNames)
    \/ LoadEverything
    \/ \E sourceNames \in PriorityLists : SetPriorityList(sourceNames)
    \/ \E t \in 1..MaxBatchTokens : FetchSucceed(t)
    \/ \E t \in 1..MaxBatchTokens : FetchFail(t)
    \/ \E t \in 1..MaxBatchTokens : LoadContinuation(t)
    \/ Dispose

BatchSpec == Init /\ [][BatchNext]_vars

\* a manager as its constructor makes it for the first atlas, with the
\* active package list that the caller gives
ResolveInit ==
    /\ tokens = <<>>
    /\ buffers = EmptyMap
    /\ forward = EmptyMap
    /\ reversed = EmptyMap
    /\ state = RUNNING
    /\ atlas = Atlas1
    /\ activePackageNames \in
          {<<"localised", "template">>, <<"template">>}
    /\ activeLanguages = <<"english", NO_LANG>>
    /\ sourcePath = "./encoded/"
    /\ priorities = <<>>
    /\ pendingAtlas = <<>>
    /\ map = EmptyMap
    /\ returned = Nothing
    /\ outcome = Silent

\* the requests by item, by file name and by source name, for names that
\* resolve and names that do not, and the completions of the loads
ResolveNext ==
    \/ \E item \in AllItems : LoadItem(item)
    \/ \E file \in FileNames : LoadFile(file)
    \/ \E sourceName \in SourceNames : RequestBufferAsync(sourceName)
    \/ \E sourceName \in SourceNames : RequestBufferSync(sourceName)
    \/ \E sourceName \in SourceNames : RequestBufferReversedAsync(sourceName)
    \/ \E sourceName \in SourceNames : RequestBufferReversedSync(sourceName)
    \/ \E t \in 1..MaxTokens : FetchSucceed(t)
    \/ \E t \in 1..MaxTokens : FetchFail(t)
    \/ \E t \in 1..MaxTokens : LoadContinuation(t)
    \/ \E t \in 1..MaxTokens : ReversedContinuation(t)

ResolveSpec == ResolveInit /\ [][ResolveNext]_vars

\* silence and one other sample value
Samples == {0, 7}

\* the buffers of at most MaxChannels channels and MaxLength samples
AudioBuffers ==
    UNION {[numberOfChannels : {nc}, length : {n}, sampleRate : {sampleRate},
            channelData : [1..nc -> [1..n -> Samples]]] :
           nc \in 1..MaxChannels, n \in 1..MaxLength}

\* the buffers that fill is called with
Target == 1

Source == 2

\* a target and a source of any shape and content
FillInit ==
    /\ tokens = <<>>
    /\ buffers \in [{Target, Source} -> AudioBuffers]
    /\ forward = EmptyMap
    /\ reversed = EmptyMap
    /\ state = RUNNING
    /\ atlas = Atlas1
    /\ activePackageNames = [i \in 1..Len(Atlas1) |-> Atlas1[i].name]
    /\ activeLanguages = <<"english", NO_LANG>>
    /\ sourcePath = "./encoded/"
    /\ priorities = <<>>
    /\ pendingAtlas = <<>>
    /\ map = EmptyMap
    /\ returned = Nothing
    /\ outcome = Silent

\* fill(target, source), with buffers that have copyFromChannel or with
\* legacy buffers
Fill(legacy) ==
    /\ buffers' = [buffers EXCEPT
                      ![Target] = fill(buffers[Target], buffers[Source], legacy)]
    /\ returned' = Nothing
    /\ outcome' = Outcome(<<>>, IF legacy THEN "fallback" ELSE "bulk")
    /\ UNCHANGED <<tokens, forward, reversed, state>>
    /\ SettingsUnchanged

FillNext == \E legacy \in BOOLEAN : Fill(legacy)

FillSpec == FillInit /\ [][FillNext]_vars

\* the lists, with repetition, of at most n elements of S
SequencesOver(S, n) == UNION {[1..k -> S] : k \in 0..n}

\* the names that the priority lists given to sort are made of
PriorityNames == {"voice", "music", "theme"}

\* the array that sort is given, held as the items of one package, and the
\* priority list
SortInit ==
    /\ tokens = <<>>
    /\ buffers = EmptyMap
    /\ forward = EmptyMap
    /\ reversed = EmptyMap
    /\ state = RUNNING
    /\ \E items \in SequencesOver(AllItems, MaxItems) :
          atlas = <<[name |-> "items", items |-> items]>>
    /\ activePackageNames = <<"items">>
    /\ activeLanguages = <<"english", NO_LANG>>
    /\ sourcePath = "./encoded/"
    /\ priorities \in SequencesOver(PriorityNames, MaxPriorities)
    /\ pendingAtlas = <<>>
    /\ map = EmptyMap
    /\ returned = Nothing
    /\ outcome = Silent

\* sort(items, priorities): the array is sorted in place; the outcome keeps
\* the array as it was given
Sort ==
    /\ atlas' = [atlas EXCEPT ![1].items = sort(@, priorities)]
    /\ returned' = Nothing
    /\ outcome' = [Outcome(<<>>, "sorted") EXCEPT !.item = atlas[1].items]
    /\ UNCHANGED <<tokens, buffers, forward, reversed, state,
                   activePackageNames, activeLanguages, sourcePath,
                   priorities, pendingAtlas,
                   map>>

SortNext == Sort

SortSpec == SortInit /\ [][SortNext]_vars

\* the items that loadLanguage calls loadItem for, in the order of the
\* calls: pack.filter(item => item[LANG] === language) for each package
itemsOfLanguage(language, packageNames) ==
    LET packs == getPackages(packageNames)
        tagged(item) == item[LANG] = language
    IN  flat([i \in 1..Len(packs) |-> SelectSeq(packs[i], tagged)])

\* the promise of an async function that is suspended at its await: loads
\* are the tokens of the loads that the call started, awaits the promises
\* that the argument of its Promise.all holds
LanguagePromise(loads, awaits) ==
    [loads |-> loads, awaits |-> awaits]
       @@ [NewSoundPromise(FALSE, "language") EXCEPT !.cont = "pending"]

\* loadLanguage(language, packageNames) up to its await, on the cache c:
\* the elements that Promise.all is given are the arrays that flatMap
\* returns, one per package, so it holds no promise
loadLanguageIn(c, language, packageNames) ==
    LET d == mapLoadItem(c, itemsOfLanguage(language, packageNames))
        started == (Len(c.tokens) + 1)..Len(d.tokens)
    IN  [d EXCEPT !.tokens = Append(@, LanguagePromise(started, {})),
                  !.result = Append(c.result, Len(d.tokens) + 1)]

RECURSIVE mapLoadLanguage(_, _, _)
\* languages.map(language => this.loadLanguage(language, packageNames))
mapLoadLanguage(c, languages, packageNames) ==
    IF languages = <<>>
    THEN c
    ELSE mapLoadLanguage(loadLanguageIn(c, Head(languages), packageNames),
                         Tail(languages), packageNames)

\* the step of a call that has left the cache c and returns the promise
\* that c.tokens ends with
IssuePromise(c) ==
    /\ Len(c.tokens) <= MaxLanguagePromises
    /\ tokens' = c.tokens
    /\ buffers' = c.buffers
    /\ forward' = c.forward
    /\ returned' = Nothing
    /\ outcome' = Outcome(c.dispatched, "promise")
    /\ UNCHANGED <<reversed, state>>
    /\ SettingsUnchanged

\* the promise of an async function that has returned without an await
Returns ==
    [LanguagePromise({}, {}) EXCEPT !.settled = "fulfilled", !.cont = "none"]

\* loadLanguage(language, packageNames)
LoadLanguage(language, packageNames) ==
    IF state = RUNNING
    THEN IssuePromise(loadLanguageIn(Cache, language, packageNames))
    ELSE IssuePromise([Cache EXCEPT !.tokens = Append(@, Returns)])

\* loadLanguages(languages, packageNames): Promise.all is given the
\* promises of the loadLanguage calls
LoadLanguages(languages, packageNames) ==
    IF state # RUNNING
    THEN IssuePromise([Cache EXCEPT !.tokens = Append(@, Returns)])
    ELSE LET c == mapLoadLanguage(Cache, languages, packageNames)
             inner == {c.result[i] : i \in 1..Len(c.result)}
             started == UNION {c.tokens[b].loads : b \in inner}
         IN  IssuePromise([c EXCEPT !.tokens =
                              Append(@, LanguagePromise(started, inner))])

\* the await of loadLanguage or loadLanguages returns, the function ends
\* and its promise is fulfilled: Promise.all waits for the promises among
\* its elements and for nothing else
LoadLanguageResume(b) ==
    /\ b \in TokenIds
    /\ tokens[b].origin = "language"
    /\ tokens[b].cont = "pending"
    /\ \A a \in tokens[b].awaits : tokens[a].settled # "pending"
    /\ tokens' = [tokens EXCEPT ![b].settled = "fulfilled",
                                ![b].cont = "done"]
    /\ returned' = Nothing
    /\ outcome' = Silent
    /\ UNCHANGED buffers
    /\ ManagerUnchanged

\* the language lists that loadLanguages is called with
LanguageLists == {<<"english", "swedish">>, <<"swedish">>}

\* the callers that load by language, and the completions of the loads
LanguageNext ==
    \/ \E language \in Languages, packageNames \in PackageLists :
          LoadLanguage(language, packageNames)
    \/ \E languages \in LanguageLists, packageNames \in PackageLists :
          LoadLanguages(languages, packageNames)
    \/ \E b \in 1..MaxLanguagePromises : LoadLanguageResume(b)
    \/ \E t \in 1..MaxLanguagePromises : FetchSucceed(t)
    \/ \E t \in 1..MaxLanguagePromises : FetchFail(t)
    \/ \E t \in 1..MaxLanguagePromises : LoadContinuation(t)
    \/ Dispose

LanguageSpec == Init /\ [][LanguageNext]_vars

\* the callers that ask again for a file, the completions of its loads and
\* the disposals of the manager
RetryNext ==
    \/ \E item \in LoadedItems : LoadItem(item)
    \/ \E file \in LoadedFiles : LoadFile(file)
    \/ \E sourceName \in VoiceNames : RequestBufferAsync(sourceName)
    \/ \E sourceName \in VoiceNames : RequestBufferSync(sourceName)
    \/ \E t \in 1..MaxTokens : FetchSucceed(t)
    \/ \E t \in 1..MaxTokens : FetchFail(t)
    \/ \E t \in 1..MaxTokens : LoadContinuation(t)
    \/ \E file \in LoadedFiles : DisposeFile(file)
    \/ Dispose
    \/ Reload

RetrySpec == Init /\ [][RetryNext]_vars

\* reloadWithAtlas(atlas): reload(), which disposes the files of the atlas
\* it finds, then setAtlas(atlas) on the manager that is RUNNING again
ReloadWithAtlas(a) ==
    /\ IF state = DISPOSED
       THEN UNCHANGED <<tokens, forward, reversed>>
       ELSE /\ tokens' = DisposedTokens(AtlasFiles)
            /\ forward' = MapDelete(forward, AtlasFiles)
            /\ reversed' = MapDelete(reversed, AtlasFiles)
    /\ state' = RUNNING
    /\ atlas' = a
    /\ returned' = Nothing
    /\ outcome' = Outcome(<<Event("reloaded", noDetail),
                            Event("atlasloaded", noDetail)>>, void)
    /\ UNCHANGED <<buffers, activePackageNames, activeLanguages, sourcePath,
                   priorities, pendingAtlas,
                   map>>

\* an atlas with a package of the default active list and a package that is
\* not in it, which alone lists the source name theme
Atlas3 ==
    << [name |-> "extra",
        items |-> << <<"theme", FileC, 2, NO_LANG>> >>],
       [name |-> "template",
        items |-> << <<"music", FileC, 2, NO_LANG>> >>] >>

\* the atlases that callers install
InstalledAtlases == Atlases \cup {Atlas3}

\* the manager whose atlas is replaced, with the lookups and the setter of
\* the active package
PackagesNext ==
    \/ \E packageName \in PackageNames : SetPackageByName(packageName)
    \/ \E a \in InstalledAtlases : SetAtlas(a)
    \/ \E a \in InstalledAtlases : LoadAtlas(a)
    \/ \E i \in 1..MaxAtlasLoads : AtlasFetched(i)
    \/ \E i \in 1..MaxAtlasLoads : AtlasFetchFail(i)
    \/ \E a \in InstalledAtlases : ReloadWithAtlas(a)
    \/ \E sourceName \in SourceNames : FindItemBySourceName(sourceName)
    \/ Dispose
    \/ Reload

PackagesSpec == Init /\ [][PackagesNext]_vars

(***************************************************************************)
(* TypedEventTarget (src/unnamed/part_003), the base class of the manager. *)
(* map[type] is the array of [listener, once] entries of the type.  A      *)
(* listener is a callback; what it does when it is called is fixed by its  *)
(* name: it returns, or it calls removeEventListener first.                *)
(***************************************************************************)
Callbacks == {"f", "g", "removesItself", "removesF"}

\* no listener
none == ""

\* the listener that callback removes, for its own type, when it is called
Removes(callback) ==
    IF callback = "removesItself" THEN "removesItself"
    ELSE IF callback = "removesF" THEN "f"
    ELSE none

\* the event types that have listeners, and those that are dispatched
ListenedTypes == {"fileloaded"}

EventTypes == {"fileloaded", "reloaded"}

\* the loop of removeEventListener: the array without its first entry whose
\* callback is listener
removeFirst(listeners, listener) ==
    IF \E i \in 1..Len(listeners) : listeners[i][1] = listener
    THEN splice(listeners,
                CHOOSE i \in 1..Len(listeners) :
                    /\ listeners[i][1] = listener
                    /\ \A j \in 1..(i - 1) : listeners[j][1] # listener)
    ELSE listeners

\* addEventListener(type, listener, {once})
AddEventListener(type, listener, once) ==
    /\ type \in DOMAIN map => Len(map[type]) < MaxListeners
    /\ map' = IF type \in DOMAIN map
              THEN [map EXCEPT ![type] = Append(@, <<listener, once>>)]
              ELSE MapSet(map, type, << <<listener, once>> >>)
    /\ returned' = Nothing
    /\ outcome' = Silent
    /\ UNCHANGED <<tokens, buffers, forward, reversed, state, atlas,
                   activePackageNames, activeLanguages, sourcePath,
                   priorities, pendingAtlas>>

\* removeEventListener(type, listener)
RemoveEventListener(type, listener) ==
    /\ map' = IF type \in DOMAIN map
              THEN [map EXCEPT ![type] = removeFirst(@, listener)]
              ELSE map
    /\ returned' = Nothing
    /\ outcome' = Silent
    /\ UNCHANGED <<tokens, buffers, forward, reversed, state, atlas,
                   activePackageNames, activeLanguages, sourcePath,
                   priorities, pendingAtlas>>

RECURSIVE dispatchFrom(_, _, _)
\* the loop of dispatchEvent from index i on the array found, which the
\* callbacks and the removal of once listeners change in place; calls are
\* the callbacks called so far
dispatchFrom(found, i, calls) ==
    IF i > Len(found)
    THEN [found |-> found, calls |-> calls]
    ELSE LET callback == found[i][1]
             once == found[i][2]
             called == IF Removes(callback) = none
                       THEN found
                       ELSE removeFirst(found, Removes(callback))
         IN  IF once
             THEN dispatchFrom(removeFirst(called, callback), i,
                               Append(calls, callback))
             ELSE dispatchFrom(called, i + 1, Append(calls, callback))

\* dispatchEvent({type}): the outcome keeps the callbacks that were called,
\* in the order of the calls
DispatchEvent(type) ==
    /\ IF type \in DOMAIN map
       THEN LET done == dispatchFrom(map[type], 1, <<>>)
            IN  /\ map' = [map EXCEPT ![type] = done.found]
                /\ outcome' = [Outcome(<<>>, true) EXCEPT !.item = done.calls]
       ELSE /\ map' = map
            /\ outcome' = Outcome(<<>>, true)
    /\ returned' = Nothing
    /\ UNCHANGED <<tokens, buffers, forward, reversed, state, atlas,
                   activePackageNames, activeLanguages, sourcePath,
                   priorities, pendingAtlas>>

\* TypedEventTarget.dispose(): this.map.clear()
DisposeListeners ==
    /\ map' = EmptyMap
    /\ returned' = Nothing
    /\ outcome' = Silent
    /\ UNCHANGED <<tokens, buffers, forward, reversed, state, atlas,
                   activePackageNames, activeLanguages, sourcePath,
                   priorities, pendingAtlas>>

\* the event target with its listeners
EventNext ==
    \/ \E type \in ListenedTypes, listener \in Callbacks, once \in BOOLEAN :
          AddEventListener(type, listener, once)
    \/ \E type \in EventTypes, listener \in Callbacks :
          RemoveEventListener(type, listener)
    \/ \E type \in EventTypes : DispatchEvent(type)
    \/ DisposeListeners

EventSpec == Init /\ [][EventNext]_vars

\* the manager with its settings, its loads and its disposal
ManagerNext ==
    \/ \E language \in Languages : SetLanguage(language)
    \/ \E packageName \in PackageNames : SetPackageByName(packageName)
    \/ \E path \in Paths : SetLoadPath(path)
    \/ \E sourceNames \in PriorityLists : SetPriorityList(sourceNames)
    \/ \E a \in Atlases : SetAtlas(a)
    \/ \E a \in Atlases : LoadAtlas(a)
    \/ \E i \in 1..MaxAtlasLoads : AtlasFetched(i)
    \/ \E i \in 1..MaxAtlasLoads : AtlasFetchFail(i)
    \/ \E item \in LoadedItems : LoadItem(item)
    \/ \E file \in LoadedFiles : LoadFile(file)
    \/ \E file \in LoadedFiles : DisposeFile(file)
    \/ \E packageName \in PackageNames : DisposePackage(packageName)
    \/ DisposePackages(getPackageNames)
    \/ Dispose
    \/ Reload

ManagerSpec == Init /\ [][ManagerNext]_vars

\* a caller that constructs tokens and drives them itself
TokenNext ==
    \/ \E decoder \in BOOLEAN : TokenNew(decoder)
    \/ TokenFromNull
    \/ \E b \in 1..(2 * MaxOwnTokens) : TokenFromBuffer(b)
    \/ \E url \in Files, decoder \in BOOLEAN : TokenFromUrl(url, decoder)
    \/ \E t \in 1..MaxOwnTokens, url \in Files : TokenLoad(t, url)
    \/ \E t \in 1..MaxOwnTokens, value \in 0..(2 * MaxOwnTokens) :
          TokenResolve(t, value)
    \/ \E t \in 1..MaxOwnTokens : TokenReject(t)
    \/ \E t \in 1..MaxOwnTokens : TokenDispose(t)
    \/ \E t \in 1..MaxOwnTokens : FetchSucceed(t)
    \/ \E t \in 1..MaxOwnTokens : FetchFail(t)

TokenSpec == Init /\ [][TokenNext]_vars

TypeOK ==
    /\ \A t \in TokenIds : tokens[t].value \in {NULL} \cup DOMAIN buffers
    /\ \A f \in DOMAIN forward : forward[f] \in TokenIds

(***************************************************************************)
(* Properties.                                                             *)
(***************************************************************************)

\* C1: while the manager is RUNNING and forward holds an entry for a file,
\* every loadItem call for an item of that file returns the token of that
\* entry and issues no fetch (it changes no token and no map); and every
\* token in forward has issued exactly one fetch, the one of the call that
\* created the entry.
C1_LoadItemSharesToken ==
    /\ [][\A item \in AllItems :
            (state = RUNNING /\ item[FILE] \in DOMAIN forward /\ LoadItem(item))
            => /\ returned'.tok = forward[item[FILE]]
               /\ ~returned'.fetched
               /\ tokens' = tokens
               /\ forward' = forward]_vars
    /\ [](\A f \in DOMAIN forward : tokens[forward[f]].fetches = 1)

\* a loadItem call has returned the pending token of forward without a fetch
C1_Witness ==
    \E f \in DOMAIN forward :
        /\ state = RUNNING
        /\ returned = Returned(forward[f], tokens[forward[f]].buffer, FALSE)
        /\ tokens[forward[f]].state = State_LOADING
        /\ tokens[forward[f]].fetches = 1

\* a loadItem call has returned the settled token of forward without a fetch
C1_WitnessSettled ==
    \E f \in DOMAIN forward :
        /\ state = RUNNING
        /\ returned = Returned(forward[f], DecodedBy(forward[f]), FALSE)
        /\ tokens[forward[f]].state = State_LOADED
        /\ tokens[forward[f]].fetches = 1

\* the fetches of a file that have been issued and have not completed
InFlight(file) ==
    {t \in TokenIds : tokens[t].fetch = "inflight" /\ tokens[t].url = file}

\* C2 as stated: in every reachable state there is at most one fetch in
\* flight for every file.
C2_OneFetchInFlight ==
    \A file \in Files : Cardinality(InFlight(file)) <= 1

\* C2, amended: a fetch in flight for a file belongs to the token that
\* forward holds for the file or to a token that has been disposed, so at
\* most one fetch is in flight for every file on behalf of a token that is
\* not disposed.
C2_OneLiveFetchInFlight ==
    \A file \in Files :
        /\ \A t \in InFlight(file) :
              \/ tokens[t].state = State_DISPOSED
              \/ file \in DOMAIN forward /\ forward[file] = t
        /\ Cardinality({t \in InFlight(file) :
                           tokens[t].state # State_DISPOSED}) <= 1

\* a file has been loaded, disposed and loaded again before the first fetch
\* completed: two fetches of it are in flight, one of a disposed token
C2_Witness ==
    \E file \in DOMAIN forward :
        \E t \in InFlight(file) :
            /\ tokens[t].state = State_DISPOSED
            /\ forward[file] \in InFlight(file)
            /\ tokens[forward[file]].state = State_LOADING

\* C3: while a token that loadItem created is in forward and its load is
\* pending or has succeeded, its value is the buffer that loadItem
\* pre-allocated for it.
C3_ValueIsPlaceholder ==
    \A f \in DOMAIN forward :
        tokens[forward[f]].state \in {State_LOADING, State_LOADED}
        => tokens[forward[f]].value = tokens[forward[f]].buffer

\* target and source agree on the channels and the samples they share
SharedRangeEqual(target, source) ==
    \A ch \in 1..Min(target.numberOfChannels, source.numberOfChannels) :
        \A i \in 1..Min(target.length, source.length) :
            target.channelData[ch][i] = source.channelData[ch][i]

\* C4: requestBufferSync for a source name that resolves returns, while the
\* load is pending, the placeholder buffer of the token; and once the load
\* has succeeded (fileloaded was dispatched for it) that placeholder holds
\* the decoded samples of the file on the channels and the sample range that
\* it shares with the decoded buffer.
C4_PlaceholderHoldsDecoded ==
    /\ [][\A sourceName \in SourceNames :
            (/\ returned'.tok \in 1..Len(tokens')
             /\ tokens'[returned'.tok].state = State_LOADING
             /\ RequestBufferSync(sourceName))
            => /\ returned'.buf = tokens'[returned'.tok].buffer
               /\ returned'.buf \in DOMAIN buffers']_vars
    /\ [](\A t \in TokenIds :
            includes(tokens[t].events, "fileloaded")
            => SharedRangeEqual(buffers[tokens[t].buffer],
                                DecodedOf(tokens[t].url)))

\* the placeholder of the file of "music", handed out while its load was
\* pending, has been filled from a decoded buffer that is longer than it
C4_Witness ==
    \E t \in TokenIds :
        /\ tokens[t].url = FileC
        /\ includes(tokens[t].events, "fileloaded")
        /\ buffers[tokens[t].buffer].channelData = << <<5, 6>>, <<8, 9>> >>

\* C5: once the state of a token is DISPOSED, no step changes its state or
\* its value.
C5_DisposedIsAbsorbing ==
    [][\A t \in TokenIds :
          tokens[t].state = State_DISPOSED
          => /\ tokens'[t].state = State_DISPOSED
             /\ tokens'[t].value = tokens[t].value]_vars

\* C6: every state change of a token follows UNLOADED -> LOADING,
\* LOADING -> LOADED, LOADING -> REJECTED or (any state) -> DISPOSED; a token
\* that a step constructs starts that step UNLOADED.
C6_OnlyDocumentedEdges ==
    [][\A t \in 1..Len(tokens') :
          LET old == IF t \in TokenIds THEN tokens[t].state
                     ELSE State_UNLOADED
              new == tokens'[t].state
          IN  \/ new = old
              \/ new = State_DISPOSED
              \/ <<old, new>> \in {<<State_UNLOADED, State_LOADING>>,
                                   <<State_LOADING, State_LOADED>>,
                                   <<State_LOADING, State_REJECTED>>}]_vars

\* fetches settle: the completion of an issued fetch is not postponed forever
FairTokenSpec ==
    /\ TokenSpec
    /\ \A t \in 1..MaxOwnTokens :
          WF_vars(FetchSucceed(t) \/ FetchFail(t))

IsLoading(t) == t \in TokenIds /\ tokens[t].state = State_LOADING

\* C7: a token that load has put in LOADING eventually leaves LOADING; when
\* its fetch and decode succeed while it is LOADING it becomes LOADED with
\* the decoded buffer as value and its awaiters get that buffer; when they
\* fail while it is LOADING it becomes REJECTED with value null and its
\* awaiters are rejected.
C7_LoadSettles ==
    /\ \A t \in 1..MaxOwnTokens : IsLoading(t) ~> ~IsLoading(t)
    /\ [][\A t \in TokenIds :
            tokens[t].state = State_LOADING
            => /\ FetchSucceed(t)
                  => /\ tokens'[t].state = State_LOADED
                     /\ tokens'[t].value = DecodedBy(t)
                     /\ buffers'[DecodedBy(t)] = DecodedOf(tokens[t].url)
                     /\ tokens'[t].settled = "fulfilled"
                     /\ tokens'[t].result = DecodedBy(t)
               /\ FetchFail(t)
                  => /\ tokens'[t].state = State_REJECTED
                     /\ tokens'[t].value = NULL
                     /\ tokens'[t].settled = "rejected"]_vars

\* a load has failed: the token is REJECTED and its awaiters were rejected
C7_Witness ==
    \E t \in CallerTokens :
        /\ tokens[t].fetch = "done"
        /\ tokens[t].state = State_REJECTED
        /\ tokens[t].settled = "rejected"

\* a load has succeeded: the token is LOADED with the decoded buffer
C7_WitnessLoaded ==
    \E t \in CallerTokens :
        /\ tokens[t].fetch = "done"
        /\ tokens[t].state = State_LOADED
        /\ tokens[t].value = DecodedBy(t)
        /\ tokens[t].settled = "fulfilled"

\* C8: load on a token whose state is not UNLOADED changes nothing and
\* issues no fetch, and no token ever issues more than one fetch.
C8_LoadOnlyOnce ==
    /\ [][\A t \in CallerTokens : \A url \in Files :
            (TokenLoad(t, url) /\ tokens[t].state # State_UNLOADED)
            => /\ tokens' = tokens
               /\ ~returned'.fetched]_vars
    /\ [](\A t \in TokenIds : tokens[t].fetches <= 1)

\* load was called on a token with a decoder whose fetch had completed, and
\* issued no fetch
C8_Witness ==
    \E t \in CallerTokens :
        /\ returned.tok = t
        /\ ~returned.fetched
        /\ tokens[t].decoder
        /\ tokens[t].fetch = "done"
        /\ tokens[t].fetches = 1

\* C9 as stated: resolve(null) on an undisposed token leaves it LOADED.
C9_ResolveNullIsLoaded ==
    [][\A t \in CallerTokens :
          (TokenResolve(t, NULL) /\ tokens[t].state # State_DISPOSED)
          => tokens'[t].state = State_LOADED]_vars

\* C9, amended: resolve(null) on an undisposed token leaves it in state
\* REJECTED with value null, the state that reject(error) produces; the two
\* differ in what the awaiters of a token that had not settled get: null
\* from resolve(null), a rejection from reject(error).
C9_ResolveNullIsRejected ==
    [][\A t \in CallerTokens :
          tokens[t].state # State_DISPOSED
          => /\ TokenResolve(t, NULL)
                => /\ tokens'[t].state = State_REJECTED
                   /\ tokens'[t].value = NULL
                   /\ tokens[t].settled = "pending"
                      => /\ tokens'[t].settled = "fulfilled"
                         /\ tokens'[t].result = NULL
             /\ TokenReject(t)
                => /\ tokens'[t].state = State_REJECTED
                   /\ tokens'[t].value = NULL
                   /\ tokens[t].settled = "pending"
                      => tokens'[t].settled = "rejected"]_vars

\* resolve(null) has settled a token that was never loaded
C9_Witness ==
    \E t \in CallerTokens :
        /\ tokens[t].decoder
        /\ tokens[t].fetch = "none"
        /\ tokens[t].state = State_REJECTED
        /\ tokens[t].value = NULL
        /\ tokens[t].settled = "fulfilled"
        /\ tokens[t].result = NULL

\* C10: a token in state LOADED has a non-null value, a token in state
\* REJECTED has value null.
C10_ValueMatchesState ==
    \A t \in TokenIds :
        /\ tokens[t].state = State_LOADED
           => tokens[t].value \in DOMAIN buffers
        /\ tokens[t].state = State_REJECTED
           => tokens[t].value = NULL

\* a failed load has left a token of forward REJECTED, and a successful load
\* has left another LOADED
C10_Witness ==
    \E f, g \in DOMAIN forward :
        /\ tokens[forward[f]].state = State_REJECTED
        /\ tokens[forward[f]].buffer # NULL
        /\ tokens[forward[g]].state = State_LOADED

\* C11: dispose() on a token that is not DISPOSED sets its state to DISPOSED
\* and its value to null, and resolves its awaiters with null when they were
\* still pending (awaiters that had received something keep it); dispose()
\* on a DISPOSED token changes nothing, so a further dispose() right after
\* the first changes neither state nor value nor what the awaiters received.
C11_DisposeIdempotent ==
    [][\A t \in CallerTokens :
          TokenDispose(t)
          => IF tokens[t].state # State_DISPOSED
             THEN /\ tokens'[t].state = State_DISPOSED
                  /\ tokens'[t].value = NULL
                  /\ IF tokens[t].settled = "pending"
                     THEN /\ tokens'[t].settled = "fulfilled"
                          /\ tokens'[t].result = NULL
                     ELSE /\ tokens'[t].settled = tokens[t].settled
                          /\ tokens'[t].result = tokens[t].result
                  /\ dispose(tokens'[t]) = tokens'[t]
             ELSE tokens' = tokens]_vars

\* a token was disposed while its fetch was in flight: it is DISPOSED and its
\* awaiters have received null
C11_Witness ==
    \E t \in CallerTokens :
        /\ tokens[t].state = State_DISPOSED
        /\ tokens[t].fetch = "inflight"
        /\ tokens[t].value = NULL
        /\ tokens[t].settled = "fulfilled"
        /\ tokens[t].result = NULL

\* the operations of C12 that hand out a token or a buffer
Requests ==
    \/ \E item \in AllItems : LoadItem(item)
    \/ \E file \in FileNames : LoadFile(file)
    \/ \E sourceName \in SourceNames :
          \/ RequestBufferAsync(sourceName)
          \/ RequestBufferSync(sourceName)
          \/ RequestBufferReversedAsync(sourceName)
          \/ RequestBufferReversedSync(sourceName)

\* C12: on a manager that is not RUNNING, loadItem, loadFile,
\* requestBufferAsync/Sync and requestBufferReversedAsync/Sync return a new
\* token resolved with null (the Sync variants null), add no entry to
\* forward or reversed, create no token and no buffer, issue no fetch and
\* dispatch no event.
C12_NotRunningReturnsNull ==
    [][(state # RUNNING /\ Requests)
       => /\ returned'.tok = FROM_NULL
          /\ TokenAt(returned'.tok).settled = "fulfilled"
          /\ TokenAt(returned'.tok).result = NULL
          /\ returned'.buf = NULL
          /\ ~returned'.fetched
          /\ outcome'.dispatched = <<>>
          /\ UNCHANGED <<tokens, buffers, forward, reversed, state>>]_vars

\* a request was made of a manager that was disposed while a load was
\* pending, and returned a null result
C12_Witness ==
    /\ state = DISPOSED
    /\ returned = Returned(FROM_NULL, NULL, FALSE)
    /\ \E t \in TokenIds : tokens[t].fetch = "inflight"

\* the mutating calls of C13
Mutators ==
    \/ \E language \in Languages : SetLanguage(language)
    \/ \E packageName \in PackageNames : SetPackageByName(packageName)
    \/ \E path \in Paths : SetLoadPath(path)
    \/ \E sourceNames \in PriorityLists : SetPriorityList(sourceNames)
    \/ \E a \in Atlases : SetAtlas(a)
    \/ \E file \in LoadedFiles : DisposeFile(file)
    \/ \E packageName \in PackageNames : DisposePackage(packageName)
    \/ DisposePackages(getPackageNames)
    \/ Dispose

\* C13: on a DISPOSED manager, setLanguage, setPackageByName, setLoadPath,
\* setPriorityList, setAtlas, disposeFile, disposePackage, disposePackages
\* and dispose leave the atlas, the active package and language lists, the
\* source path, the priority list, the forward and reversed maps and the
\* run state unchanged and dispatch no event.
C13_DisposedManagerIsFrozen ==
    [][(state = DISPOSED /\ Mutators)
       => /\ UNCHANGED <<atlas, activePackageNames, activeLanguages,
                         sourcePath, priorities, forward, reversed, state>>
          /\ outcome'.dispatched = <<>>]_vars

\* C14: while the manager is DISPOSED no step replaces the atlas and no
\* step dispatches atlasloaded, also not the completion of the fetch of a
\* loadAtlas call that was made while the manager was RUNNING.
C14_NoAtlasWhileDisposed ==
    [][(state = DISPOSED /\ state' = DISPOSED)
       => /\ atlas' = atlas
          /\ ~includes(outcome'.dispatched,
                       Event("atlasloaded", noDetail))]_vars

\* C15: reload() leaves the manager RUNNING with an empty forward map,
\* whatever loadItem, loadFile, setAtlas, loadAtlas and setPackageByName
\* calls came before it.
C15_ReloadEmptiesForward ==
    [][Reload => (state' = RUNNING /\ forward' = EmptyMap)]_vars

\* the tokens that the maps hold for a file
HeldFor(file) ==
    {forward[f] : f \in {file} \cap DOMAIN forward}
        \cup {reversed[f] : f \in {file} \cap DOMAIN reversed}

\* C16: disposeFile(F) on a RUNNING manager disposes the tokens that forward
\* and reversed hold for F and removes both entries, and leaves every other
\* entry and every other token unchanged; afterwards F reports load state
\* UNLOADED, and a loadItem for a file without forward entry creates a new
\* token with a new fetch and enters it in forward.
C16_DisposeFileFrame ==
    /\ [][\A file \in Files :
            (state = RUNNING /\ DisposeFile(file))
            => /\ file \notin DOMAIN forward'
               /\ file \notin DOMAIN reversed'
               /\ \A t \in HeldFor(file) :
                     tokens'[t].state = State_DISPOSED
               /\ forward' = MapDelete(forward, {file})
               /\ reversed' = MapDelete(reversed, {file})
               /\ Len(tokens') = Len(tokens)
               /\ \A t \in TokenIds \ HeldFor(file) :
                     tokens'[t] = tokens[t]
               /\ buffers' = buffers
               /\ getLoadStateByFile(file)' = State_UNLOADED]_vars
    /\ [][\A item \in AllItems :
            (/\ state = RUNNING
             /\ item[FILE] \notin DOMAIN forward
             /\ LoadItem(item))
            => /\ Len(tokens') = Len(tokens) + 1
               /\ returned'.tok = Len(tokens')
               /\ returned'.fetched
               /\ forward'[item[FILE]] = returned'.tok
               /\ tokens'[returned'.tok].state = State_LOADING
               /\ tokens'[returned'.tok].fetch = "inflight"
               /\ tokens'[returned'.tok].fetches = 1]_vars

\* a file whose load had failed was disposed and then loaded again: its old
\* token is DISPOSED and held by no map, and forward holds a new token that
\* is loading
C16_Witness ==
    \E file \in DOMAIN forward :
        \E t \in TokenIds \ {forward[file]} :
            /\ tokens[t].url = file
            /\ tokens[t].state = State_DISPOSED
            /\ tokens[t].settled = "rejected"
            /\ tokens[forward[file]].state = State_LOADING
            /\ tokens[forward[file]].fetches = 1
            /\ file \notin DOMAIN reversed

\* the token of a load that loadItem started was disposed before its fetch
\* completed: its awaiters got null from the disposal
DisposedWhilePending(t) ==
    /\ tokens[t].origin = "manager"
    /\ tokens[t].forwardOf = NULL
    /\ tokens[t].settled = "fulfilled"
    /\ tokens[t].result = NULL

Matches(sourceName) ==
    {pos \in (1..Len(activePackageNames)) \X (1..4) :
        /\ AtlasHas(atlas, activePackageNames[pos[1]])
        /\ pos[2] <= Len(AtlasGet(atlas, activePackageNames[pos[1]]))
        /\ LET item == AtlasGet(atlas, activePackageNames[pos[1]])[pos[2]]
           IN  /\ item[SOURCE] = sourceName
               /\ \/ item[LANG] = NO_LANG
                  \/ \E i \in 1..Len(activeLanguages) :
                        activeLanguages[i] = item[LANG]}

\* pos comes before other in the scan of the active packages
Before(pos, other) ==
    pos[1] < other[1] \/ (pos[1] = other[1] /\ pos[2] <= other[2])

\* C18: on a RUNNING manager findItemBySourceName(s) returns the first
\* item, scanning the active packages in priority order and the items of a
\* package in stored order, that is named s and whose language tag is
\* NO_LANG or an active language, and undefined when there is none.
C18_FindFirstMatch ==
    [][\A sourceName \in SourceNames :
          (state = RUNNING /\ FindItemBySourceName(sourceName))
          => IF Matches(sourceName) = {}
             THEN outcome'.item = undefined
             ELSE LET first == CHOOSE pos \in Matches(sourceName) :
                                 \A other \in Matches(sourceName) :
                                     Before(pos, other)
                  IN  outcome'.item =
                        AtlasGet(atlas, activePackageNames[first[1]])[first[2]]
      ]_vars

\* the items of sourceName tagged lang in the active packages
Variants(sourceName, lang) ==
    {pos \in (1..Len(activePackageNames)) \X (1..4) :
        /\ AtlasHas(atlas, activePackageNames[pos[1]])
        /\ pos[2] <= Len(AtlasGet(atlas, activePackageNames[pos[1]]))
        /\ LET item == AtlasGet(atlas, activePackageNames[pos[1]])[pos[2]]
           IN  item[SOURCE] = sourceName /\ item[LANG] = lang}

\* C19: right after setLanguage(L) has returned true, findItemBySourceName(s)
\* returns an item tagged L for every s of which an active package holds a
\* variant tagged L and a variant tagged with another active language,
\* whatever the order of the two variants in the package.
C19_ActiveLanguageWins ==
    [][\A language \in Languages : \A sourceName \in SourceNames :
          (SetLanguage(language) /\ outcome'.value = true)
          => ((\E pos \in Variants(sourceName, language) :
                 \E i \in 2..Len(activeLanguages') :
                   \E other \in Variants(sourceName, activeLanguages'[i]) :
                      other[1] = pos[1])
              => findItemBySourceName(sourceName, activePackageNames,
                                      activeLanguages)'[LANG] = language)
      ]_vars

\* the languages that the items of the atlas are tagged with
AtlasLanguages ==
    {atlas[i].items[j][LANG] :
        i \in 1..Len(atlas), j \in 1..2}

\* C20: setLanguage(tag) returns false, changes nothing and dispatches
\* nothing when the manager is not RUNNING, when tag is first in the active
\* language list or when no item of the atlas is tagged tag; otherwise it
\* returns true, dispatches languagechanged once with detail tag and the
\* active list becomes tag followed by its previous members other than
\* tag in their previous order, without duplicate; nothing else changes.
C20_SetLanguage ==
    [][\A tag \in Languages :
          SetLanguage(tag)
          => /\ UNCHANGED <<tokens, buffers, forward, reversed, state, atlas,
                            activePackageNames, sourcePath, priorities,
                            pendingAtlas,
                   map>>
             /\ IF \/ state # RUNNING
                   \/ activeLanguages # <<>> /\ activeLanguages[1] = tag
                   \/ tag \notin AtlasLanguages
                THEN /\ outcome'.value = false
                     /\ outcome'.dispatched = <<>>
                     /\ activeLanguages' = activeLanguages
                ELSE LET IsOther(l) == l # tag
                     IN  /\ outcome'.value = true
                         /\ outcome'.dispatched =
                               <<Event("languagechanged", tag)>>
                         /\ activeLanguages' =
                               <<tag>> \o SelectSeq(activeLanguages, IsOther)
                         /\ \A i, j \in 1..Len(activeLanguages') :
                               activeLanguages'[i] = activeLanguages'[j]
                               => i = j]_vars

\* setLanguage("swedish") has moved swedish from the end of the active list
\* to its front
C20_Witness ==
    /\ outcome = Outcome(<<Event("languagechanged", "swedish")>>, true)
    /\ activeLanguages = <<"swedish", NO_LANG, "english">>

DerivedFor(file) ==
    {r \in TokenIds : /\ file \in DOMAIN forward
                      /\ tokens[r].forwardOf = forward[file]}
        \cup {reversed[f] : f \in {file} \cap DOMAIN reversed}

\* C22: a requestBufferReversedAsync call for a source name that resolves to
\* a file returns the token that every earlier requestBufferReversedAsync
\* call for that file returned since the file was last disposed, whether
\* the forward load is pending or settled.
C22_ReversedSharesToken ==
    [][\A sourceName \in SourceNames :
          LET item == findItemBySourceName(sourceName, activePackageNames,
                                           activeLanguages)
          IN  (item # undefined /\ RequestBufferReversedAsync(sourceName))
              => \A r \in DerivedFor(item[FILE]) : returned'.tok = r]_vars

\* target holds the samples of source reversed in time, on the channels
\* and the sample range they share: sample i of source, counted from 0, is
\* at index length-1-i of target
HoldsReversed(target, source) ==
    \A ch \in 1..Min(target.numberOfChannels, source.numberOfChannels) :
        \A i \in 1..Min(target.length, source.length) :
            target.channelData[ch][target.length - i + 1]
                = source.channelData[ch][i]

\* C23: once the forward load of a file has succeeded and the token that
\* requestBufferReversedAsync returned for the file has been resolved, the
\* buffer of that token holds the decoded samples of the file reversed in
\* time.
C23_ReversedHoldsReversed ==
    \A r \in TokenIds :
        (/\ tokens[r].forwardOf # NULL
         /\ tokens[r].cont = "done"
         /\ tokens[r].state = State_LOADED)
        => HoldsReversed(buffers[tokens[r].buffer],
                         DecodedOf(tokens[tokens[r].forwardOf].url))

\* r is a token that requestBufferReversedAsync derived from a forward
\* token whose awaiters got null
DerivedFromNull(r) ==
    /\ r \in TokenIds
    /\ tokens[r].forwardOf # NULL
    /\ tokens[tokens[r].forwardOf].settled = "fulfilled"
    /\ tokens[tokens[r].forwardOf].result = NULL

ResolvedWithNull(r) ==
    /\ r \in TokenIds
    /\ tokens[r].settled = "fulfilled"
    /\ tokens[r].result = NULL
    /\ tokens[r].value = NULL

\* C24: when the forward token of a file resolves to null, every token that
\* requestBufferReversedAsync derived from it is eventually resolved with
\* null; the continuation that does so runs to its end (it leaves the
\* reversed token resolved with null, not pending), and the reversed token
\* is never settled in another way.
C24_ReversedFollowsNull ==
    /\ \A r \in 1..MaxTokens : DerivedFromNull(r) ~> ResolvedWithNull(r)
    /\ [](\A r \in TokenIds :
            DerivedFromNull(r)
            => IF tokens[r].cont = "done"
               THEN ResolvedWithNull(r)
               ELSE tokens[r].settled = "pending")

\* the file was disposed while its load was pending: the forward token
\* resolved to null and the reversed token derived from it followed
C24_Witness ==
    \E r \in TokenIds :
        /\ DerivedFromNull(r)
        /\ tokens[tokens[r].forwardOf].state = State_DISPOSED
        /\ tokens[r].cont = "done"
        /\ ResolvedWithNull(r)

\* C25: every file that has an entry in reversed has an entry in forward;
\* and a token that requestBufferReversedAsync created has issued no fetch:
\* every fetch was issued by loadItem, once, for a token that it entered in
\* forward.
C25_ReversedNeedsForward ==
    /\ DOMAIN reversed \subseteq DOMAIN forward
    /\ \A t \in TokenIds :
          IF tokens[t].forwardOf # NULL
          THEN tokens[t].fetches = 0 /\ tokens[t].fetch = "none"
          ELSE /\ tokens[t].fetches = 1
               /\ tokens[t].events[1] = "fileloading"

\* reversed holds an entry for a file, and a token that
\* requestBufferReversedAsync derived for that file exists without a fetch
C25_Witness ==
    \E file \in DOMAIN reversed :
        /\ file \in DOMAIN forward
        /\ \E r \in TokenIds :
              /\ tokens[r].forwardOf = forward[file]
              /\ tokens[r].fetches = 0

\* C26: no token is held by both the forward map and the reversed map.
C26_MapsShareNoToken ==
    \A f \in DOMAIN forward :
        \A g \in DOMAIN reversed : forward[f] # reversed[g]

\* a and b have the same channel count, length and sample rate
SameShape(a, b) ==
    /\ a.numberOfChannels = b.numberOfChannels
    /\ a.length = b.length
    /\ a.sampleRate = b.sampleRate

\* C27: requestBufferReversedSync for a source name that resolves to an
\* item returns a buffer, not null, that has the channel count, the length
\* and the sample rate of the buffer of the forward token of the file of
\* the item, whatever the state of that forward token.
C27_ReversedSyncGivesBuffer ==
    [][\A sourceName \in SourceNames :
          LET item == findItemBySourceName(sourceName, activePackageNames,
                                           activeLanguages)
          IN  (item # undefined /\ RequestBufferReversedSync(sourceName))
              => /\ returned'.buf # NULL
                 /\ returned'.buf \in DOMAIN buffers'
                 /\ tokens'[forward'[item[FILE]]].value # NULL
                 /\ SameShape(buffers'[returned'.buf],
                              buffers'[tokens'[forward'[item[FILE]]].value])]_vars

\* the fetch and decode of the load of token t have succeeded
FetchSucceeded(t) ==
    /\ t \in TokenIds
    /\ tokens[t].forwardOf = NULL
    /\ tokens[t].fetch = "done"
    /\ DecodedBy(t) \in DOMAIN buffers

\* the fetch or decode of the load of token t has failed
FetchFailed(t) ==
    /\ t \in TokenIds
    /\ tokens[t].forwardOf = NULL
    /\ tokens[t].fetch = "done"
    /\ DecodedBy(t) \notin DOMAIN buffers

\* the events that the manager has dispatched for the load of token t
Dispatched(t, events) == t \in TokenIds /\ tokens[t].events = events

\* C28: every load that loadItem starts dispatches fileloading once, before
\* any completion event of that load; it dispatches at most one completion
\* event, fileloaded only after its fetch and decode have succeeded and
\* fileloaderror only after they have failed; and once its fetch and decode
\* have succeeded it eventually has dispatched fileloaded, once they have
\* failed it eventually has dispatched fileloaderror.
C28_OneCompletionEvent ==
    /\ [](\A t \in {u \in TokenIds : tokens[u].forwardOf = NULL} :
            /\ tokens[t].events \in {<<"fileloading">>,
                                     <<"fileloading", "fileloaded">>,
                                     <<"fileloading", "fileloaderror">>}
            /\ includes(tokens[t].events, "fileloaded") => FetchSucceeded(t)
            /\ includes(tokens[t].events, "fileloaderror") => FetchFailed(t))
    /\ \A t \in 1..MaxTokens :
          /\ FetchSucceeded(t)
                ~> Dispatched(t, <<"fileloading", "fileloaded">>)
          /\ FetchFailed(t)
                ~> Dispatched(t, <<"fileloading", "fileloaderror">>)

\* the step has left every file of files with a token in forward whose
\* fetch was issued: the token that forward held before, or a new one
IssuedAll(files) ==
    \A file \in files :
        /\ file \in DOMAIN forward'
        /\ tokens'[forward'[file]].fetches = 1
        /\ IF file \in DOMAIN forward
           THEN forward'[file] = forward[file]
           ELSE /\ tokens'[forward'[file]].state = State_LOADING
                /\ tokens'[forward'[file]].fetch = "inflight"

\* C29: on a RUNNING manager, the step that issues a batch (loadItems,
\* loadSources, loadPackageName, loadPackageNames, loadEverything) issues
\* the load of every file of the batch, also when forward holds tokens of
\* loads that have failed; a load that is LOADING has its fetch in flight
\* whatever has become of the other loads; and when its fetch and decode
\* succeed it becomes LOADED, and its continuation fills its placeholder and
\* dispatches fileloaded, also when other loads have failed.
C29_BatchSiblingsLoad ==
    /\ [][state = RUNNING
          => /\ \A items \in ItemLists :
                   LoadItems(items) => IssuedAll(FilesOf(items))
             /\ \A sources \in SourceLists :
                   LoadSources(sources)
                   => IssuedAll(FilesOf(itemsOfSources(sources)))
             /\ \A name \in PackageNames :
                   LoadPackageName(name)
                   => IssuedAll(FilesOf(getPackageItems(name)))
             /\ \A packageNames \in PackageLists :
                   LoadPackageNames(packageNames)
                   => IssuedAll(FilesOf(flat(getPackages(packageNames))))
             /\ LoadEverything => IssuedAll(AtlasFiles)]_vars
    /\ [](\A t \in TokenIds :
            tokens[t].state = State_LOADING => tokens[t].fetch = "inflight")
    /\ [][\A t \in TokenIds :
            /\ (tokens[t].state = State_LOADING /\ FetchSucceed(t))
               => tokens'[t].state = State_LOADED
            /\ (/\ tokens[t].state = State_LOADED
                /\ tokens[t].settled = "fulfilled"
                /\ tokens[t].result # NULL
                /\ LoadContinuation(t))
               => /\ outcome'.dispatched =
                        <<Event("fileloaded", tokens[t].url)>>
                  /\ SharedRangeEqual(buffers'[tokens[t].buffer],
                                      DecodedOf(tokens[t].url))]_vars

\* of three loads the first has failed and the two others are LOADED, with
\* their placeholders filled
C29_Witness ==
    /\ Len(tokens) = 3
    /\ tokens[1].state = State_REJECTED
    /\ tokens[1].events = <<"fileloading", "fileloaderror">>
    /\ \A t \in {2, 3} :
          /\ tokens[t].state = State_LOADED
          /\ tokens[t].events = <<"fileloading", "fileloaded">>
          /\ forward[tokens[t].url] = t

\* the step returned a new token resolved with null (a Sync variant: null),
\* created no token and no buffer, added no entry to forward or reversed
\* and issued no fetch
NullResult ==
    /\ returned'.tok = FROM_NULL
    /\ TokenAt(returned'.tok).settled = "fulfilled"
    /\ TokenAt(returned'.tok).result = NULL
    /\ returned'.buf = NULL
    /\ ~returned'.fetched
    /\ outcome'.value = void
    /\ UNCHANGED <<tokens, buffers, forward, reversed, state>>

\* the requests by source name of C30
RequestsBySource(sourceName) ==
    \/ RequestBufferAsync(sourceName)
    \/ RequestBufferSync(sourceName)
    \/ RequestBufferReversedAsync(sourceName)
    \/ RequestBufferReversedSync(sourceName)

NumSamplesOf(file) == {item[NUMS] : item \in {i \in AllItems : i[FILE] = file}}

\* C31: every token that forward holds is LOADING, LOADED or REJECTED, and
\* while it is LOADING its value is a buffer, not null, with the channel
\* count that the file id gives and the sample count of the item.
C31_ForwardTokensAreLive ==
    \A file \in DOMAIN forward :
        LET p == tokens[forward[file]]
        IN  /\ p.state \in {State_LOADING, State_LOADED, State_REJECTED}
            /\ p.state = State_LOADING
               => /\ p.value # NULL
                  /\ p.value \in DOMAIN buffers
                  /\ buffers[p.value].numberOfChannels
                        = getNumChannelsByFile(file)
                  /\ buffers[p.value].length \in NumSamplesOf(file)

\* forward holds a token whose load has failed and a token that is LOADING
\* with a placeholder of two channels and two samples
C31_Witness ==
    \E f, g \in DOMAIN forward :
        /\ tokens[forward[f]].state = State_REJECTED
        /\ tokens[forward[g]].state = State_LOADING
        /\ tokens[forward[g]].fetch = "inflight"
        /\ buffers[tokens[forward[g]].value].numberOfChannels = 2
        /\ buffers[tokens[forward[g]].value].length = 2

\* the files of the fileloading events of a step, in the order of dispatch
IssuedFiles ==
    LET isLoading(e) == e[1] = "fileloading"
        loading == SelectSeq(outcome'.dispatched, isLoading)
    IN  [i \in 1..Len(loading) |-> loading[i][2]]

\* the least index in the priority list of a source name that an item of
\* batch has for file
BatchRank(file, batch) ==
    LET ranks == {priorityIndex(batch[i][SOURCE], priorities) :
                     i \in {k \in 1..Len(batch) : batch[k][FILE] = file}}
    IN  CHOOSE r \in ranks : \A q \in ranks : r <= q

\* the fetch of a file whose item is on the priority list is issued after
\* no fetch of an item that is later on the list or not on it
InPriorityOrder(batch) ==
    LET files == IssuedFiles
    IN  \A i, j \in 1..Len(files) :
            (i < j /\ BatchRank(files[j], batch) < Len(priorities))
            => BatchRank(files[i], batch) <= BatchRank(files[j], batch)

\* the items of the packages of names that the atlas has
ItemsOfPackages(names) ==
    flat([i \in 1..Len(inAtlas(names)) |-> getPackageItems(inAtlas(names)[i])])

\* C32: a batch load with a priority list that is not empty issues the
\* fetches of the items on the list, in the order of the list, before the
\* fetch of every item of the batch that is not on the list.
C32_BatchInPriorityOrder ==
    [][Len(priorities) > 0
       => /\ \A items \in ItemLists :
                LoadItems(items) => InPriorityOrder(items)
          /\ \A sources \in SourceLists :
                LoadSources(sources) => InPriorityOrder(itemsOfSources(sources))
          /\ \A name \in PackageNames :
                LoadPackageName(name) => InPriorityOrder(getPackageItems(name))
          /\ \A packageNames \in PackageLists :
                LoadPackageNames(packageNames)
                => InPriorityOrder(ItemsOfPackages(packageNames))
          /\ LoadEverything => InPriorityOrder(ItemsOfPackages(getPackageNames))
      ]_vars

\* after is target with the first samples of the first channels of source
\* copied in forward order and with every other sample as it was
CopiedInto(target, source, after) ==
    LET nch == Min(target.numberOfChannels, source.numberOfChannels)
        ns == Min(target.length, source.length)
    IN  /\ after.numberOfChannels = target.numberOfChannels
        /\ after.length = target.length
        /\ \A ch \in 1..target.numberOfChannels : \A i \in 1..target.length :
              after.channelData[ch][i]
                 = IF ch <= nch /\ i <= ns
                   THEN source.channelData[ch][i]
                   ELSE target.channelData[ch][i]

\* C33: fill(target, source) copies the first min(target.length,
\* source.length) samples of each of the first min(target.channels,
\* source.channels) channels of source into target and leaves every other
\* sample of target as it was; a second call with the same source changes
\* nothing more; the bulk path and the fallback path give the same target.
C33_FillCopies ==
    [][\A legacy \in BOOLEAN :
          Fill(legacy)
          => /\ CopiedInto(buffers[Target], buffers[Source], buffers'[Target])
             /\ fill(buffers'[Target], buffers[Source], legacy)
                   = buffers'[Target]
             /\ fill(buffers[Target], buffers[Source], TRUE)
                   = fill(buffers[Target], buffers[Source], FALSE)
      ]_vars

\* how often item occurs in s
Occurrences(item, s) == Cardinality({i \in 1..Len(s) : s[i] = item})

\* the position of name in list, the last one when list repeats the name
PositionIn(name, list) ==
    CHOOSE i \in 1..Len(list) :
        list[i] = name /\ \A j \in 1..Len(list) : list[j] = name => j <= i

\* C34: sort(items, priorities) returns a permutation of items in which the
\* items whose source name is in priorities come first, in the order of the
\* positions of their names in priorities, and the other items follow in the
\* order they had in items.
C34_SortByPriority ==
    outcome.value = "sorted"
    => LET before == outcome.item
           after == atlas[1].items
           Listed(item) == includes(priorities, item[SOURCE])
           Unlisted(item) == ~Listed(item)
       IN  /\ Len(after) = Len(before)
           /\ \A item \in AllItems :
                 Occurrences(item, after) = Occurrences(item, before)
           /\ \A i, j \in 1..Len(after) :
                 (i < j /\ Listed(after[j]))
                 => /\ Listed(after[i])
                    /\ PositionIn(after[i][SOURCE], priorities)
                          <= PositionIn(after[j][SOURCE], priorities)
           /\ SelectSeq(after, Unlisted) = SelectSeq(before, Unlisted)

\* sort has moved a listed item in front of two items that are not on the
\* list and has put the listed items in the order of the list
C34_Witness ==
    /\ outcome.value = "sorted"
    /\ priorities = <<"theme", "music">>
    /\ outcome.item = <<Atlas1[1].items[1], Atlas1[2].items[1], Atlas1[2].items[2]>>
    /\ atlas[1].items = <<Atlas1[2].items[2], Atlas1[2].items[1], Atlas1[1].items[1]>>

\* C35: the promise that loadLanguage or loadLanguages returned is settled
\* only when every load that the call started has settled.
C35_LanguagePromiseAwaitsLoads ==
    \A b \in TokenIds :
        (tokens[b].origin = "language" /\ tokens[b].settled # "pending")
        => \A t \in tokens[b].loads : tokens[t].settled # "pending"

\* r is a token that requestBufferReversedAsync derived from a forward
\* token that has settled
ForwardOfSettled(r) ==
    /\ r \in TokenIds
    /\ tokens[r].forwardOf # NULL
    /\ tokens[tokens[r].forwardOf].settled # "pending"

\* C36: once the forward token of its file has settled, fulfilled, disposed
\* or rejected, every token that requestBufferReversedAsync derived from it
\* eventually settles.
C36_ReversedSettles ==
    \A r \in 1..MaxTokens :
        ForwardOfSettled(r) ~> (r \in TokenIds /\ tokens[r].settled # "pending")

\* forward holds for file the token of a load that has failed
HoldsRejected(file) ==
    /\ file \in DOMAIN forward
    /\ tokens[forward[file]].state = State_REJECTED

\* the step returned the token that forward held for file, with a null
\* value, and made no token and issued no fetch
ReturnedRejected(file) ==
    /\ returned'.tok = forward[file]
    /\ returned'.buf = NULL
    /\ ~returned'.fetched
    /\ tokens' = tokens
    /\ forward' = forward

\* C37: while forward holds the rejected token of a failed load of a file,
\* every step but disposeFile of that file, dispose and reload leaves that
\* token in forward, rejected; loadItem, loadFile and requestBufferAsync for
\* the file return that token and issue no fetch, and requestBufferSync
\* returns null.
C37_RejectedTokenStays ==
    [][\A file \in Files :
          HoldsRejected(file)
          => /\ \/ /\ file \in DOMAIN forward'
                   /\ forward'[file] = forward[file]
                   /\ tokens'[forward[file]].state = State_REJECTED
                   /\ tokens'[forward[file]].fetches
                         = tokens[forward[file]].fetches
                \/ DisposeFile(file)
                \/ Dispose
                \/ Reload
             /\ \A item \in AllItems :
                   (item[FILE] = file /\ LoadItem(item))
                   => ReturnedRejected(file)
             /\ LoadFile(file) => ReturnedRejected(file)
             /\ \A sourceName \in SourceNames :
                   LET item == findItemBySourceName(sourceName,
                                   activePackageNames, activeLanguages)
                   IN  (/\ item # undefined
                        /\ item[FILE] = file
                        /\ (RequestBufferAsync(sourceName)
                               \/ RequestBufferSync(sourceName)))
                       => ReturnedRejected(file)
      ]_vars

\* a call has returned the rejected token of a file whose one fetch failed
C37_Witness ==
    \E file \in DOMAIN forward :
        /\ tokens[forward[file]].state = State_REJECTED
        /\ tokens[forward[file]].settled = "rejected"
        /\ tokens[forward[file]].fetches = 1
        /\ tokens[forward[file]].cont = "done"
        /\ returned = Returned(forward[file], NULL, FALSE)

\* the active package list that the constructor makes: the keys of the
\* first atlas
InitialPackages == [i \in 1..Len(Atlas1) |-> Atlas1[i].name]

\* s and t hold the same elements, each as often in one as in the other
IsPermutation(s, t) ==
    /\ Len(s) = Len(t)
    /\ \A x \in PackageNames :
          Cardinality({i \in 1..Len(s) : s[i] = x})
             = Cardinality({i \in 1..Len(t) : t[i] = x})

\* item is listed by a package of the atlas whose name is in names
ListedIn(item, names) ==
    \E i \in 1..Len(atlas) :
        /\ includes(names, atlas[i].name)
        /\ includes(atlas[i].items, item)

\* C38: the active package list is always a permutation of its initial
\* value; setAtlas, loadAtlas, reload and reloadWithAtlas leave it as it is;
\* and findItemBySourceName returns no item of a package that is not in the
\* initial list.
C38_ActivePackagesPermuted ==
    /\ [](IsPermutation(activePackageNames, InitialPackages))
    /\ []((outcome.value = "item" /\ outcome.item # undefined)
          => ListedIn(outcome.item, InitialPackages))
    /\ [][(\/ \E a \in InstalledAtlases :
                SetAtlas(a) \/ LoadAtlas(a) \/ ReloadWithAtlas(a)
           \/ \E i \in 1..MaxAtlasLoads : AtlasFetched(i)
           \/ Reload)
          => UNCHANGED activePackageNames]_vars

\* an atlas with a package outside the initial list is installed, the
\* active list has been reordered, and a lookup of the name that only the
\* new package lists has found nothing
C38_Witness ==
    /\ atlas = Atlas3
    /\ activePackageNames = <<"template", "localised">>
    /\ outcome.value = "item"
    /\ outcome.item = undefined

\* the callbacks of the entries of listeners, in order
CallbacksOf(listeners) == [i \in 1..Len(listeners) |-> listeners[i][1]]

\* how many entries of listeners register callback without once
Lasting(listeners, callback) ==
    Cardinality({i \in 1..Len(listeners) : listeners[i] = <<callback, FALSE>>})

\* C39: dispatchEvent calls every listener that is registered for the type
\* when the dispatch starts once, in the order of registration, also when a
\* listener removes a listener during the dispatch (here: every listener
\* that no callback of the dispatch removes); no once listener that was
\* registered when a dispatch started is registered after it; and a
\* listener registered without once stays registered when no callback
\* removes it, also when the same callback is registered with once as well.
C39_DispatchCallsEachOnce ==
    [][\A type \in ListenedTypes :
          (type \in DOMAIN map /\ DispatchEvent(type))
          => LET before == map[type]
                 after == map'[type]
                 calls == outcome'.item
                 Untargeted(callback) ==
                     \A k \in 1..Len(before) :
                         Removes(before[k][1]) # callback
             IN  /\ SelectSeq(calls, Untargeted)
                       = SelectSeq(CallbacksOf(before), Untargeted)
                 /\ \A i \in 1..Len(after) :
                       Untargeted(after[i][1]) => ~after[i][2]
                 /\ \A callback \in Callbacks :
                       Untargeted(callback)
                       => Lasting(after, callback) = Lasting(before, callback)
      ]_vars

====
